---- MODULE Spec2Model ----
(***************************************************************************)
(* Model of the AImc decision-and-actuation core.                          *)
(*                                                                         *)
(* Part 1: the input safety governor, control/input.py InputController,    *)
(* driven by arbitrary callers over a driver whose every call may raise.   *)
(* Time is time.perf_counter() counted in whole ticks.  max_hold_sec is a  *)
(* whole number of ticks, 0 standing for any positive limit shorter than   *)
(* one tick (t - start > max_hold_sec then holds as soon as t > start);    *)
(* the click period 1.0 / max_click_hz is a whole number of ticks >= 1.    *)
(***************************************************************************)
EXTENDS Integers, Sequences, FiniteSets, TLC

VARIABLES
    held,        \* InputController._held_keys: insertion-ordered dict key -> hold start
    lastClick,   \* InputController._last_click: key -> time of last accepted press
    allowed,     \* InputController._allowed_keys: None or a set of lowercase names
    maxHold,     \* InputController.max_hold_sec
    clickPeriod, \* 1.0 / InputController.max_click_hz
    now,         \* the reading time.perf_counter() gives
    down,        \* the driver's own key state: key-down accepted, no key-up accepted since
    op,          \* the governor operation that ran last (name, argument, time, raised)
    calls,       \* the driver calls that operation issued, in order, with their outcome
    pre,         \* the governor's fields as they were when that operation was entered
    pc,          \* run_live: the statement the control loop is at
    params,      \* run_live: its arguments (default goal, demo_task, allowed_keys, callback)
    stopEvent,   \* run_live: stop_event.is_set()
    termination, \* run_live: termination_status
    exc,         \* run_live: the exception leaving run_live, if any
    capture,     \* run_live: capture is not None
    ocr,         \* run_live: ocr is not None
    tree,        \* run_live: the tree planner.plan returned
    previousStatus, \* run_live: previous_status
    emitted,     \* the tokens handed to status_callback, in order
    board,       \* Blackboard: timestamp, current_task, last_action_reason, action_history
    demo,        \* run_live: demo_task_id is set, demo_start_time, the demo task's state
    ticks,       \* number of tree ticks of the session
    teardown,    \* the calls made by run_live's finally block, in order
    stopAt,      \* the value of ticks when the stop signal was set
    plans,       \* number of planner.plan calls run_live has made
    frame,       \* the current loop iteration: its steps so far, a failed capture
    race,        \* two threads inside one InputController: their positions and locals
    tasks,       \* TaskManager._tasks: the registry, in insertion order
    audit,       \* the lines of tasks.log
    taskOp,      \* the TaskManager operation that ran last, how it ended, what it began with
    bt,          \* a composite node under test: its children's results, and one tick of it
    recorded,    \* every reason given to the blackboard under test, in call order
    overlay,     \* RoiOverlayController: its fields and the widget's visibility
    overlayOps   \* the last two operations on the overlay, each with the state before

govVars == <<held, lastClick, allowed, maxHold, clickPeriod, now, down, op, calls, pre>>

liveVars == <<pc, params, stopEvent, termination, exc, capture, ocr, tree, previousStatus,
              emitted, board, demo, ticks, teardown, stopAt, plans, frame>>

moreVars == <<race, tasks, audit, taskOp, bt, recorded, overlay, overlayOps>>

vars == <<govVars, liveVars, moreVars>>

-----------------------------------------------------------------------------
(* Bounds of the model *)

MaxTime == 2
MaxHoldCap == 1
MaxPeriod == 2
MaxTicks == 2
MaxTasks == 2
MaxRows == 4
MaxIoErrors == 1
MaxRecords == 40
MaxChildren == 3

(* Key names callers pass to press / release: one that str.lower() changes, *)
(* one that it leaves alone                                                 *)
Keys == {"W", "d"}

(* Key names the behaviour tree's actions use (agent/bt.py) *)
TreeKeys == {"w", "d"}

AllKeys == Keys \cup TreeKeys

(* Raw strings a caller may put in the set given to set_allowed_keys *)
RawKeys == {" W ", "d", " "}

NoTime == -1

(* Each driver call of one operation fails or not on its own: the set of the *)
(* positions (1 = first call of the operation) at which the driver raises.   *)
FailSets == SUBSET (1 .. Cardinality(Keys))

-----------------------------------------------------------------------------
(* str.strip() and str.lower() on the strings of the model *)

Strip(s) == CASE s = " W " -> "W"
              [] s = " "   -> ""
              [] OTHER     -> s

Lower(s) == CASE s = "W"   -> "w"
              [] s = " W " -> " w "
              [] OTHER     -> s

(* {key.strip().lower() for key in keys if key.strip()} *)
Normalize(keys) == {Lower(Strip(k)) : k \in {r \in keys : Strip(r) # ""}}

-----------------------------------------------------------------------------
(* The held-key dict *)

HeldKeys(h) == {h[i].key : i \in 1 .. Len(h)}

IsHolding(h, k) == k \in HeldKeys(h)

Since(h, k) == h[CHOOSE i \in 1 .. Len(h) : h[i].key = k].since

Pop(h, k) == SelectSeq(h, LAMBDA e : e.key # k)

(* Variant: an empty allow-list read as "no restriction" *)
IsAllowedEmptyMeansAny(a, k) == IF a.none \/ a.keys = {} THEN TRUE ELSE Lower(k) \in a.keys

IsAllowed(a, k) == IF a.none THEN TRUE ELSE Lower(k) \in a.keys

-----------------------------------------------------------------------------
(* The driver.  A call that raises leaves the driver's key state as it was. *)

DriverEffect(d, kind, key, ok) ==
    IF ~ok THEN d
    ELSE IF kind = "down" THEN d \cup {key}
    ELSE IF kind = "up" THEN d \ {key}
    ELSE d

(* A context c is the governor's fields, the driver, the calls issued so far *)
(* by the running operation, and whether an exception is propagating.        *)
Drive(c, kind, key, F) ==
    LET ok == (Len(c.calls) + 1) \notin F
    IN [c EXCEPT !.calls  = Append(@, [kind |-> kind, key |-> key, ok |-> ok]),
                 !.down   = DriverEffect(@, kind, key, ok),
                 !.raised = ~ok]

Enter == [held |-> held, lastClick |-> lastClick, allowed |-> allowed,
          down |-> down, calls |-> <<>>, raised |-> FALSE]

-----------------------------------------------------------------------------
(* InputController operations *)

(* Variant: key-up issued without looking at the held-set *)
ReleaseUnconditional(c, key, F) ==
    LET c1 == Drive(c, "up", key, F)
    IN IF c1.raised THEN c1 ELSE [c1 EXCEPT !.held = Pop(@, key)]

(* Variant: the release that also forgets the key's last click *)
ReleaseForgetsClick(c, key, F) ==
    IF ~IsHolding(c.held, key) THEN c
    ELSE LET c1 == Drive(c, "up", key, F)
         IN IF c1.raised THEN c1
            ELSE [c1 EXCEPT !.held = Pop(@, key), !.lastClick[key] = NoTime]

Release(c, key, F) ==
    IF ~IsHolding(c.held, key) THEN c
    ELSE LET c1 == Drive(c, "up", key, F)
         IN IF c1.raised THEN c1 ELSE [c1 EXCEPT !.held = Pop(@, key)]

(* Variant: the click period taken one tick short *)
RateLimitedShort(c, key, t) ==
    c.lastClick[key] # NoTime /\ t - c.lastClick[key] < clickPeriod - 1

RateLimited(c, key, t) ==
    c.lastClick[key] # NoTime /\ t - c.lastClick[key] < clickPeriod

(* Variants: the hold limit compared with >=, and taken one tick long *)
HoldExpiredInclusive(start, t) == t - start >= maxHold

HoldExpiredLate(start, t) == t - start > maxHold + 1

HoldExpired(start, t) == t - start > maxHold

(* Variant: a press on a held key restarts its hold *)
AcquireRestartsHold(c, key, t, F) ==
    IF IsHolding(c.held, key)
    THEN [c EXCEPT !.held = Append(Pop(@, key), [key |-> key, since |-> t])]
    ELSE LET c1 == Drive(c, "down", key, F)
         IN IF c1.raised THEN c1
            ELSE [c1 EXCEPT !.held = Append(@, [key |-> key, since |-> t])]

Acquire(c, key, t, F) ==
    IF IsHolding(c.held, key) THEN c
    ELSE LET c1 == Drive(c, "down", key, F)
         IN IF c1.raised THEN c1
            ELSE [c1 EXCEPT !.held = Append(@, [key |-> key, since |-> t])]

Press(c, key, t, F) ==
    IF ~IsAllowed(c.allowed, key) THEN c
    ELSE IF RateLimited(c, key, t) THEN c
    ELSE LET c1 == IF IsHolding(c.held, key) /\ HoldExpired(Since(c.held, key), t)
                   THEN Release(c, key, F) ELSE c
             c2 == IF c1.raised THEN c1 ELSE Acquire(c1, key, t, F)
         IN IF c2.raised THEN c2 ELSE [c2 EXCEPT !.lastClick[key] = t]

MoveMouse(c, F) == Drive(c, "move", "", F)

RECURSIVE PanicLoop(_, _, _, _)
PanicLoop(c, snapshot, i, F) ==
    IF i > Len(snapshot) \/ c.raised THEN c
    ELSE PanicLoop(Drive(c, "up", snapshot[i].key, F), snapshot, i + 1, F)

(* Variant: the key-ups issued, the held-set never cleared *)
PanicStopNoClear(c, F) == PanicLoop(c, c.held, 1, F)

PanicStop(c, F) ==
    LET c1 == PanicLoop(c, c.held, 1, F)
    IN IF c1.raised THEN c1 ELSE [c1 EXCEPT !.held = <<>>]

UpdateOne(c, e, t, F) ==
    IF ~HoldExpired(e.since, t) THEN c
    ELSE LET c1 == Drive(c, "up", e.key, F)
         IN IF c1.raised THEN c1 ELSE [c1 EXCEPT !.held = Pop(@, e.key)]

RECURSIVE UpdateLoop(_, _, _, _, _)
UpdateLoop(c, snapshot, i, t, F) ==
    IF i > Len(snapshot) \/ c.raised THEN c
    ELSE UpdateLoop(UpdateOne(c, snapshot[i], t, F), snapshot, i + 1, t, F)

Update(c, t, F) == UpdateLoop(c, c.held, 1, t, F)

(* The new value of _allowed_keys: None stays None, a set is normalised *)
Unrestricted == [none |-> TRUE, keys |-> {}]

NewAllowed(keys) == [none |-> FALSE, keys |-> Normalize(keys)]

RECURSIVE AllowLoop(_, _, _, _)
AllowLoop(c, snapshot, i, F) ==
    IF i > Len(snapshot) \/ c.raised THEN c
    ELSE AllowLoop(IF IsAllowed(c.allowed, snapshot[i].key) THEN c
                   ELSE Release(c, snapshot[i].key, F),
                   snapshot, i + 1, F)

(* Variant: the allow-list replaced without releasing what it excludes *)
SetAllowedKeysNoRelease(c, a, F) == [c EXCEPT !.allowed = a]

SetAllowedKeys(c, a, F) ==
    LET c0 == [c EXCEPT !.allowed = a]
    IN AllowLoop(c0, c0.held, 1, F)

-----------------------------------------------------------------------------
(* Governor specification: any caller, any order, any driver *)

Snapshot == [held |-> held, lastClick |-> lastClick, allowed |-> allowed, down |-> down]

CommitGov(c, name, key) ==
    /\ held' = c.held
    /\ lastClick' = c.lastClick
    /\ allowed' = c.allowed
    /\ down' = c.down
    /\ calls' = c.calls
    /\ op' = [name |-> name, key |-> key, at |-> now, raised |-> c.raised]
    /\ pre' = Snapshot
    /\ UNCHANGED <<maxHold, clickPeriod, now>>

Commit(c, name, key) == CommitGov(c, name, key) /\ UNCHANGED <<liveVars, moreVars>>

TypeOK ==
    /\ now \in 0 .. MaxTime
    /\ maxHold \in 0 .. MaxHoldCap
    /\ clickPeriod \in 1 .. MaxPeriod
    /\ down \subseteq AllKeys

(* Outside a loop iteration of run_live: no step taken, no capture failed *)
NoFrame == [steps |-> <<>>, failed |-> FALSE, stale |-> 0]

(* run_live not running: the governor is driven directly *)
LiveIdle ==
    /\ pc = "off"
    /\ params = [goal |-> "idle", demo_task |-> FALSE, allowed_keys |-> Unrestricted,
                 callback |-> FALSE]
    /\ stopEvent = FALSE
    /\ termination = "STOPPED"
    /\ exc = "none"
    /\ capture = FALSE
    /\ ocr = FALSE
    /\ tree = [type |-> "none"]
    /\ previousStatus = "None"
    /\ emitted = <<>>
    /\ board = [timestamp |-> 0, current_task |-> "None", last_action_reason |-> "None",
                action_history |-> <<>>]
    /\ demo = [pending |-> FALSE, start |-> 0, state |-> "none"]
    /\ ticks = 0
    /\ teardown = <<>>
    /\ stopAt = 0
    /\ plans = 0
    /\ frame = NoFrame

(* No second thread in the InputController *)
RaceIdle == race = [phase |-> "off"]

(* No TaskManager constructed *)
TasksIdle ==
    /\ tasks = <<>>
    /\ audit = <<>>
    /\ taskOp = [name |-> "none"]

(* No composite node under test *)
TreeIdle == bt = [phase |-> "off"]

(* No blackboard under test *)
BoardIdle == recorded = <<>>

(* No overlay window constructed *)
OverlayIdle == overlay = [phase |-> "off"] /\ overlayOps = <<>>

MoreIdle == RaceIdle /\ TasksIdle /\ TreeIdle /\ BoardIdle /\ OverlayIdle

GovInit ==
    /\ held = <<>>
    /\ lastClick = [k \in AllKeys |-> NoTime]
    /\ allowed = [none |-> TRUE, keys |-> {}]
    /\ maxHold \in 0 .. MaxHoldCap
    /\ clickPeriod \in 1 .. MaxPeriod
    /\ now = 0
    /\ down = {}
    /\ op = [name |-> "init", key |-> "", at |-> 0, raised |-> FALSE]
    /\ calls = <<>>
    /\ pre = [held |-> <<>>, lastClick |-> [k \in AllKeys |-> NoTime],
              allowed |-> [none |-> TRUE, keys |-> {}], down |-> {}]

Init == GovInit /\ LiveIdle /\ MoreIdle

Advance ==
    /\ now < MaxTime
    /\ now' = now + 1
    /\ UNCHANGED <<held, lastClick, allowed, maxHold, clickPeriod, down, op, calls, pre>>
    /\ UNCHANGED <<liveVars, moreVars>>

DoPress == \E k \in Keys, F \in FailSets : Commit(Press(Enter, k, now, F), "press", k)

DoRelease == \E k \in Keys, F \in FailSets : Commit(Release(Enter, k, F), "release", k)

DoMoveMouse == \E F \in FailSets : Commit(MoveMouse(Enter, F), "move_mouse", "")

DoPanicStop == \E F \in FailSets : Commit(PanicStop(Enter, F), "panic_stop", "")

DoUpdate == \E F \in FailSets : Commit(Update(Enter, now, F), "update", "")

DoSetAllowedKeys ==
    \E a \in {Unrestricted} \cup {NewAllowed(s) : s \in SUBSET RawKeys}, F \in FailSets :
        Commit(SetAllowedKeys(Enter, a, F), "set_allowed_keys", "")

Next ==
    \/ Advance
    \/ DoPress
    \/ DoRelease
    \/ DoMoveMouse
    \/ DoPanicStop
    \/ DoUpdate
    \/ DoSetAllowedKeys

Spec == Init /\ [][Next]_vars

(* The governor on a driver whose calls all succeed *)
CallsSucceed == \A i \in 1 .. Len(calls) : calls[i].ok

SoundNext ==
    \/ Advance
    \/ DoPress /\ CallsSucceed'
    \/ DoRelease /\ CallsSucceed'
    \/ DoMoveMouse /\ CallsSucceed'
    \/ DoPanicStop /\ CallsSucceed'
    \/ DoUpdate /\ CallsSucceed'
    \/ DoSetAllowedKeys /\ CallsSucceed'

SpecSound == Init /\ [][SoundNext]_vars

-----------------------------------------------------------------------------
(* Part 2: the blackboard, the behaviour tree, the planner and run_live.     *)

(* core/state.py: deque(maxlen=32) *)
HistoryMaxLen == 32

(* Variant: a history without a maximum length *)
PushActionUnbounded(h, description) == Append(h, description)

PushAction(h, description) ==
    IF Len(h) >= HistoryMaxLen THEN Append(Tail(h), description) ELSE Append(h, description)

RecordReason(b, reason) ==
    [b EXCEPT !.last_action_reason = reason,
              !.action_history = PushAction(@, reason)]

(* A tick context x: the governor context, the blackboard, and the status    *)
(* returned ("raised" when an exception is leaving the tick).                *)
(* Variant: Failure when the governor did not take the key *)
MoveForwardActionOrFail(x, t, F) ==
    LET c1 == Press(x.gov, "w", t, F)
    IN IF c1.raised THEN [x EXCEPT !.gov = c1, !.status = "raised"]
       ELSE IF ~IsHolding(c1.held, "w") THEN [x EXCEPT !.gov = c1, !.status = "FAILURE"]
       ELSE [gov |-> c1, board |-> RecordReason(x.board, "forward"), status |-> "RUNNING"]

MoveForwardAction(x, t, F) ==
    LET c1 == Press(x.gov, "w", t, F)
    IN IF c1.raised THEN [x EXCEPT !.gov = c1, !.status = "raised"]
       ELSE [gov |-> c1, board |-> RecordReason(x.board, "forward"), status |-> "RUNNING"]

TurnRightAction(x, t, F) ==
    LET c1 == Press(x.gov, "d", t, F)
    IN IF c1.raised THEN [x EXCEPT !.gov = c1, !.status = "raised"]
       ELSE [gov |-> c1, board |-> RecordReason(x.board, "turn_right"), status |-> "RUNNING"]

(* Variant: the stop that lets go of every held key *)
StopActionReleaseAll(x, t, F) ==
    LET c1 == PanicStop(x.gov, F)
    IN IF c1.raised THEN [x EXCEPT !.gov = c1, !.status = "raised"]
       ELSE [gov |-> c1, board |-> RecordReason(x.board, "stop"), status |-> "SUCCESS"]

StopAction(x, t, F) ==
    LET c1 == Release(x.gov, "w", F)
        c2 == IF c1.raised THEN c1 ELSE Release(c1, "d", F)
    IN IF c2.raised THEN [x EXCEPT !.gov = c2, !.status = "raised"]
       ELSE [gov |-> c2, board |-> RecordReason(x.board, "stop"), status |-> "SUCCESS"]

RunAction(name, x, t, F) ==
    CASE name = "move_forward" -> MoveForwardAction(x, t, F)
      [] name = "turn_right"   -> TurnRightAction(x, t, F)
      [] name = "stop"         -> StopAction(x, t, F)

(* An ActionNode whose action records its own name on the blackboard and    *)
(* returns a fixed status                                                    *)
ProbeAction(node, x) ==
    [x EXCEPT !.board = RecordReason(@, node.name), !.status = node.returns]

RECURSIVE TickNode(_, _, _, _)
RECURSIVE TickChildren(_, _, _, _, _, _)
RECURSIVE TickChildrenAll(_, _, _, _, _, _)

(* Variant: the loop that never returns early *)
TickChildrenAll(kind, nodes, i, x, t, F) ==
    IF i > Len(nodes)
    THEN [x EXCEPT !.status = IF kind = "sequence" THEN "SUCCESS" ELSE "FAILURE"]
    ELSE TickChildrenAll(kind, nodes, i + 1, TickNode(nodes[i], x, t, F), t, F)

(* Sequence.tick / Selector.tick: the loop over self._nodes from child i on *)
TickChildren(kind, nodes, i, x, t, F) ==
    IF i > Len(nodes)
    THEN [x EXCEPT !.status = IF kind = "sequence" THEN "SUCCESS" ELSE "FAILURE"]
    ELSE LET y == TickNode(nodes[i], x, t, F)
         IN IF y.status = "raised" THEN y
            ELSE IF kind = "sequence" /\ y.status # "SUCCESS" THEN y
            ELSE IF kind = "selector" /\ y.status # "FAILURE" THEN y
            ELSE TickChildren(kind, nodes, i + 1, y, t, F)

TickNode(node, x, t, F) ==
    IF node.type = "action" THEN RunAction(node.name, x, t, F)
    ELSE IF node.type = "probe" THEN ProbeAction(node, x)
    ELSE TickChildren(node.type, node.nodes, 1, x, t, F)

ActionNode(name) == [type |-> "action", name |-> name]

BuildDefaultTree ==
    [type |-> "selector",
     nodes |-> <<ActionNode("move_forward"), ActionNode("turn_right"), ActionNode("stop")>>]

BuildStopTree == ActionNode("stop")

(* Planner: the stop cue in the current task's description overrides the goal *)
HasStopCue(description) == description = "stop_here"

(* Variant: the current task never looked at *)
GoalFromTasksIgnored(default, description) == default

GoalFromTasks(default, description) ==
    IF description = "None" THEN default
    ELSE IF HasStopCue(description) THEN "stop"
    ELSE default

Select(goal) == IF goal \in {"forward", "stop"} THEN goal ELSE "forward"

Plan(goal, description) ==
    IF Select(GoalFromTasks(goal, description)) = "stop" THEN BuildStopTree
    ELSE BuildDefaultTree

-----------------------------------------------------------------------------
(* run_live *)

(* main.py line 132: the demo task is completed once more than 1.0 s passed *)
DemoDelay == 1

Goals == {"idle", "stop"}

AllowedArgs == {Unrestricted, NewAllowed({}), NewAllowed({" W "})}

LoopPcs == {"capture", "stop_check", "tick", "update", "demo", "sleep"}

BtReason(status) ==
    CASE status = "RUNNING" -> "bt_status_RUNNING"
      [] status = "SUCCESS" -> "bt_status_SUCCESS"
      [] status = "FAILURE" -> "bt_status_FAILURE"

LiveInit ==
    /\ GovInit
    /\ pc = "start"
    /\ params \in [goal : Goals, demo_task : BOOLEAN, allowed_keys : AllowedArgs,
                   callback : BOOLEAN]
    /\ stopEvent = FALSE
    /\ termination = "STOPPED"
    /\ exc = "none"
    /\ capture = FALSE
    /\ ocr = FALSE
    /\ tree = [type |-> "none"]
    /\ previousStatus = "None"
    /\ emitted = <<>>
    /\ board = [timestamp |-> 0, current_task |-> "None", last_action_reason |-> "None",
                action_history |-> <<>>]
    /\ demo = [pending |-> FALSE, start |-> 0, state |-> "none"]
    /\ ticks = 0
    /\ teardown = <<>>
    /\ stopAt = 0
    /\ plans = 0
    /\ frame = NoFrame
    /\ MoreIdle

(* Lines 78-112: the objects are built, the allow-list set, the tree planned, *)
(* the demo task created and started, capture and OCR initialised (each may   *)
(* fail and is then None).                                                    *)
LiveSetup ==
    /\ pc = "start"
    /\ CommitGov(SetAllowedKeys(Enter, params.allowed_keys, {}), "set_allowed_keys", "")
    /\ tree' = Plan(params.goal, "None")
    /\ demo' = IF params.demo_task
               THEN [pending |-> TRUE, start |-> now, state |-> "running"]
               ELSE demo
    /\ board' = IF params.demo_task THEN [board EXCEPT !.current_task = "collect_wood"]
                ELSE board
    /\ capture' \in BOOLEAN
    /\ ocr' \in BOOLEAN
    /\ termination' = "STOPPED"
    /\ pc' = "capture"
    /\ UNCHANGED <<params, stopEvent, exc, previousStatus, emitted, ticks, teardown>>
    /\ plans' = plans + 1
    /\ UNCHANGED <<stopAt, frame, moreVars>>

(* Variant: a failing capture() is not caught and ends the loop *)
LiveCaptureUncaught ==
    /\ pc = "capture"
    /\ \E ok \in BOOLEAN :
          /\ board' = IF capture /\ ok THEN [board EXCEPT !.timestamp = now] ELSE board
          /\ frame' = [steps |-> <<"capture">>, failed |-> capture /\ ~ok,
                       stale |-> IF capture /\ ~ok THEN board.timestamp ELSE 0]
          /\ IF capture /\ ~ok THEN exc' = "error" /\ pc' = "panic"
             ELSE pc' = "stop_check" /\ UNCHANGED exc
    /\ UNCHANGED <<govVars, params, stopEvent, termination, capture, ocr, tree,
                   previousStatus, emitted, demo, ticks, teardown>>
    /\ UNCHANGED <<stopAt, plans, moreVars>>

(* Lines 115-120: a failing capture() is caught and leaves the timestamp *)
LiveCapture ==
    /\ pc = "capture"
    /\ \E ok \in BOOLEAN :
          /\ board' = IF capture /\ ok THEN [board EXCEPT !.timestamp = now] ELSE board
          /\ frame' = [steps |-> <<"capture">>, failed |-> capture /\ ~ok,
                       stale |-> IF capture /\ ~ok THEN board.timestamp ELSE 0]
    /\ pc' = "stop_check"
    /\ UNCHANGED <<govVars, params, stopEvent, termination, exc, capture, ocr, tree,
                   previousStatus, emitted, demo, ticks, teardown>>
    /\ UNCHANGED <<stopAt, plans, moreVars>>

(* Variant: the check that never looks at the stop signal *)
LiveStopCheckBlind ==
    /\ pc = "stop_check"
    /\ pc' = "tick"
    /\ UNCHANGED <<board, termination>>
    /\ UNCHANGED <<govVars, params, stopEvent, exc, capture, ocr, tree, previousStatus,
                   emitted, demo, ticks, teardown>>
    /\ UNCHANGED <<stopAt, plans, moreVars>>
    /\ frame' = [frame EXCEPT !.steps = Append(@, "stop_check")]

(* Lines 121-124 *)
LiveStopCheck ==
    /\ pc = "stop_check"
    /\ IF stopEvent
       THEN /\ board' = RecordReason(board, "stop_requested")
            /\ termination' = "REQUESTED_STOP"
            /\ pc' = "panic"
       ELSE /\ pc' = "tick"
            /\ UNCHANGED <<board, termination>>
    /\ UNCHANGED <<govVars, params, stopEvent, exc, capture, ocr, tree, previousStatus,
                   emitted, demo, ticks, teardown>>
    /\ UNCHANGED <<stopAt, plans, moreVars>>
    /\ frame' = [frame EXCEPT !.steps = Append(@, "stop_check")]

(* Lines 125-130 *)
LiveTick ==
    /\ pc = "tick"
    /\ ticks < MaxTicks
    /\ \E F \in FailSets :
          LET x == TickNode(tree, [gov |-> Enter, board |-> board, status |-> "None"], now, F)
              changed == x.status # previousStatus
          IN /\ CommitGov(x.gov, "tick", "")
             /\ IF x.status = "raised"
                THEN /\ exc' = "error"
                     /\ pc' = "panic"
                     /\ board' = x.board
                     /\ UNCHANGED <<previousStatus, emitted>>
                ELSE /\ pc' = "update"
                     /\ previousStatus' = x.status
                     /\ board' = IF changed THEN RecordReason(x.board, BtReason(x.status))
                                 ELSE x.board
                     /\ emitted' = IF changed /\ params.callback
                                   THEN Append(emitted, x.status) ELSE emitted
                     /\ UNCHANGED exc
    /\ ticks' = ticks + 1
    /\ UNCHANGED <<params, stopEvent, termination, capture, ocr, tree, demo, teardown>>
    /\ UNCHANGED <<stopAt, plans, moreVars>>
    /\ frame' = [frame EXCEPT !.steps = Append(@, "tick")]

(* Variant: the iteration that goes on without calling update() *)
LiveUpdateSkipped ==
    /\ pc = "update"
    /\ pc' = "demo"
    /\ UNCHANGED <<govVars, params, stopEvent, termination, exc, capture, ocr, tree,
                   previousStatus, emitted, board, demo, ticks, teardown>>
    /\ UNCHANGED <<stopAt, plans, frame, moreVars>>

(* Line 131 *)
LiveUpdate ==
    /\ pc = "update"
    /\ \E F \in FailSets :
          LET c == Update(Enter, now, F)
          IN /\ CommitGov(c, "update", "")
             /\ IF c.raised THEN exc' = "error" /\ pc' = "panic"
                ELSE pc' = "demo" /\ UNCHANGED exc
    /\ UNCHANGED <<params, stopEvent, termination, capture, ocr, tree, previousStatus,
                   emitted, board, demo, ticks, teardown>>
    /\ UNCHANGED <<stopAt, plans, moreVars>>
    /\ frame' = [frame EXCEPT !.steps = Append(@, "update")]

(* Lines 132-136: complete_task sets the state, appends to the audit log     *)
(* (which may raise), then clears the blackboard's current task.             *)
LiveDemo ==
    /\ pc = "demo"
    /\ IF demo.pending /\ now - demo.start > DemoDelay /\ demo.state = "running"
       THEN \E logged \in BOOLEAN :
               IF logged
               THEN /\ demo' = [demo EXCEPT !.state = "done", !.pending = FALSE]
                    /\ board' = [board EXCEPT !.current_task = "None"]
                    /\ pc' = "sleep"
                    /\ UNCHANGED exc
               ELSE /\ demo' = [demo EXCEPT !.state = "done"]
                    /\ exc' = "error"
                    /\ pc' = "panic"
                    /\ UNCHANGED board
       ELSE /\ pc' = "sleep"
            /\ UNCHANGED <<demo, board, exc>>
    /\ UNCHANGED <<govVars, params, stopEvent, termination, capture, ocr, tree,
                   previousStatus, emitted, ticks, teardown>>
    /\ UNCHANGED <<stopAt, plans, frame, moreVars>>

(* Variant: the loop that plans the tree again before each iteration *)
LiveSleepReplans ==
    /\ pc = "sleep"
    /\ pc' = "capture"
    /\ tree' = Plan(params.goal, IF demo.state = "running" THEN "collect_wood" ELSE "None")
    /\ plans' = plans + 1
    /\ frame' = NoFrame
    /\ UNCHANGED <<govVars, params, stopEvent, termination, exc, capture, ocr,
                   previousStatus, emitted, board, demo, ticks, teardown>>
    /\ UNCHANGED <<stopAt, moreVars>>

(* Line 137 *)
LiveSleep ==
    /\ pc = "sleep"
    /\ pc' = "capture"
    /\ UNCHANGED <<govVars, params, stopEvent, termination, exc, capture, ocr, tree,
                   previousStatus, emitted, board, demo, ticks, teardown>>
    /\ UNCHANGED <<stopAt, plans, moreVars>>
    /\ frame' = NoFrame

(* Lines 138-140: KeyboardInterrupt raised between two statements of the loop *)
LiveInterrupt ==
    /\ pc \in LoopPcs
    /\ termination' = "INTERRUPTED"
    /\ pc' = "panic"
    /\ UNCHANGED <<govVars, params, stopEvent, exc, capture, ocr, tree, previousStatus,
                   emitted, board, demo, ticks, teardown>>
    /\ UNCHANGED <<stopAt, plans, frame, moreVars>>

(* Line 142: an exception leaving panic_stop leaves the finally block *)
LivePanicStop ==
    /\ pc = "panic"
    /\ \E F \in FailSets :
          LET c == PanicStop(Enter, F)
          IN /\ CommitGov(c, "panic_stop", "")
             /\ IF c.raised THEN exc' = "error" /\ pc' = "done"
                ELSE pc' = "capture_stop" /\ UNCHANGED exc
    /\ teardown' = Append(teardown, "panic_stop")
    /\ UNCHANGED <<params, stopEvent, termination, capture, ocr, tree, previousStatus,
                   emitted, board, demo, ticks>>
    /\ UNCHANGED <<stopAt, plans, frame, moreVars>>

(* Lines 143-144 *)
LiveCaptureStop ==
    /\ pc = "capture_stop"
    /\ teardown' = IF capture THEN Append(teardown, "capture.stop") ELSE teardown
    /\ pc' = "ocr_stop"
    /\ UNCHANGED <<govVars, params, stopEvent, termination, exc, capture, ocr, tree,
                   previousStatus, emitted, board, demo, ticks>>
    /\ UNCHANGED <<stopAt, plans, frame, moreVars>>

(* Lines 145-146 *)
LiveOcrStop ==
    /\ pc = "ocr_stop"
    /\ teardown' = IF ocr THEN Append(teardown, "ocr.stop") ELSE teardown
    /\ pc' = "callback"
    /\ UNCHANGED <<govVars, params, stopEvent, termination, exc, capture, ocr, tree,
                   previousStatus, emitted, board, demo, ticks>>
    /\ UNCHANGED <<stopAt, plans, frame, moreVars>>

(* Lines 147-149 *)
LiveCallback ==
    /\ pc = "callback"
    /\ emitted' = IF params.callback THEN Append(emitted, termination) ELSE emitted
    /\ teardown' = IF params.callback THEN Append(teardown, "status_callback") ELSE teardown
    /\ pc' = "done"
    /\ UNCHANGED <<govVars, params, stopEvent, termination, exc, capture, ocr, tree,
                   previousStatus, board, demo, ticks>>
    /\ UNCHANGED <<stopAt, plans, frame, moreVars>>

(* LiveWorker.request_stop, from the UI thread *)
RequestStop ==
    /\ pc \in LoopPcs
    /\ ~stopEvent
    /\ stopEvent' = TRUE
    /\ stopAt' = ticks
    /\ UNCHANGED plans
    /\ UNCHANGED <<govVars, pc, params, termination, exc, capture, ocr, tree,
                   previousStatus, emitted, board, demo, ticks, teardown>>
    /\ UNCHANGED <<frame, moreVars>>

LiveAdvance ==
    /\ pc \in LoopPcs
    /\ now < MaxTime
    /\ now' = now + 1
    /\ UNCHANGED <<held, lastClick, allowed, maxHold, clickPeriod, down, op, calls, pre>>
    /\ UNCHANGED <<liveVars, moreVars>>

LiveNext ==
    \/ LiveSetup
    \/ LiveCapture
    \/ LiveStopCheck
    \/ LiveTick
    \/ LiveUpdate
    \/ LiveDemo
    \/ LiveSleep
    \/ LiveInterrupt
    \/ LivePanicStop
    \/ LiveCaptureStop
    \/ LiveOcrStop
    \/ LiveCallback
    \/ RequestStop
    \/ LiveAdvance

SpecLive == LiveInit /\ [][LiveNext]_vars

-----------------------------------------------------------------------------
(* run_live as LiveWorker runs it: on a worker thread, where Python raises   *)
(* no KeyboardInterrupt, with a stop_event, and with every driver call and   *)
(* every log write of the loop body succeeding.  The thread keeps running:   *)
(* its next statement is eventually executed.  The stop signal is set by the *)
(* UI thread at any moment of the loop at which a tick is still to come.     *)

CalmTick == LiveTick /\ exc' = "none"

CalmUpdate == LiveUpdate /\ exc' = "none"

CalmDemo == LiveDemo /\ exc' = "none"

CalmPanicStop == LivePanicStop /\ exc' = "none"

StopRequest == RequestStop /\ ~(pc = "tick" /\ ticks >= MaxTicks)

WorkerStep ==
    \/ LiveSetup
    \/ LiveCapture
    \/ LiveStopCheck
    \/ CalmTick
    \/ CalmUpdate
    \/ CalmDemo
    \/ LiveSleep
    \/ CalmPanicStop
    \/ LiveCaptureStop
    \/ LiveOcrStop
    \/ LiveCallback

StopNext ==
    \/ WorkerStep
    \/ StopRequest
    \/ LiveAdvance

(* The governor's limits do not enter the loop's control flow: they are     *)
(* taken at their tightest, where a tick issues the most driver calls.       *)
StopInit == LiveInit /\ maxHold = 0 /\ clickPeriod = 1

SpecStop == StopInit /\ [][StopNext]_vars /\ WF_vars(WorkerStep)

-----------------------------------------------------------------------------
(* Part 3: two threads in one InputController.  The class takes no lock, so  *)
(* a press running on one thread and a panic_stop or a set_allowed_keys      *)
(* running on another interleave statement by statement.  Each action below  *)
(* is one statement of input.py; driver calls succeed.  The clock does not   *)
(* move during the race: press reads it once and the other two never do.     *)

Others == {"panic_stop", "set_allowed_keys"}

RaceArgs == {Unrestricted} \cup {NewAllowed(s) : s \in SUBSET RawKeys}

RaceGovUnchanged == UNCHANGED <<maxHold, clickPeriod, now, op, calls, pre>>

RaceRest == UNCHANGED <<liveVars, tasks, audit, taskOp, bt, recorded, overlay, overlayOps>>

(* Single-threaded use before the second thread arrives *)
RaceInit ==
    /\ GovInit
    /\ LiveIdle
    /\ OverlayIdle
    /\ TasksIdle
    /\ TreeIdle
    /\ BoardIdle
    /\ race = [phase |-> "setup"]

RaceSetupPress ==
    /\ race.phase = "setup"
    /\ \E k \in Keys :
         LET c == Press(Enter, k, now, {})
         IN /\ held' = c.held
            /\ lastClick' = c.lastClick
            /\ down' = c.down
    /\ UNCHANGED <<allowed, race>>
    /\ RaceGovUnchanged
    /\ RaceRest

RaceSetupAdvance ==
    /\ race.phase = "setup"
    /\ now < MaxTime
    /\ now' = now + 1
    /\ UNCHANGED <<held, lastClick, allowed, maxHold, clickPeriod, down, op, calls, pre, race>>
    /\ RaceRest

(* Thread P enters press(key) while thread Q enters the other operation *)
RaceStart ==
    /\ race.phase = "setup"
    /\ \E k \in Keys, o \in Others, a \in RaceArgs :
         /\ o = "panic_stop" => a = Unrestricted
         /\ race' = [phase |-> "run", key |-> k, other |-> o, arg |-> a,
                     init |-> Snapshot, at |-> now,
                     pp |-> "allowed", qp |-> IF o = "panic_stop" THEN "snapshot" ELSE "assign",
                     snap |-> <<>>, i |-> 1]
    /\ UNCHANGED <<held, lastClick, allowed, down>>
    /\ RaceGovUnchanged
    /\ RaceRest

Running == race.phase = "run"

StepP(to) == race' = [race EXCEPT !.pp = to]

StepQ(to) == race' = [race EXCEPT !.qp = to]

(* press, lines 68-70 *)
RacePressAllowed ==
    /\ Running /\ race.pp = "allowed"
    /\ StepP(IF IsAllowed(allowed, race.key) THEN "rate" ELSE "done")
    /\ UNCHANGED <<held, lastClick, allowed, down>>
    /\ RaceGovUnchanged
    /\ RaceRest

(* press, lines 71-72 *)
RacePressRate ==
    /\ Running /\ race.pp = "rate"
    /\ StepP(IF RateLimited([lastClick |-> lastClick], race.key, race.at)
             THEN "done" ELSE "expiry")
    /\ UNCHANGED <<held, lastClick, allowed, down>>
    /\ RaceGovUnchanged
    /\ RaceRest

(* press, line 73 *)
RacePressExpiry ==
    /\ Running /\ race.pp = "expiry"
    /\ StepP(IF IsHolding(held, race.key) /\ HoldExpired(Since(held, race.key), race.at)
             THEN "release" ELSE "held_check")
    /\ UNCHANGED <<held, lastClick, allowed, down>>
    /\ RaceGovUnchanged
    /\ RaceRest

(* release called by press, line 81 *)
RacePressReleaseCheck ==
    /\ Running /\ race.pp = "release"
    /\ StepP(IF IsHolding(held, race.key) THEN "key_up" ELSE "held_check")
    /\ UNCHANGED <<held, lastClick, allowed, down>>
    /\ RaceGovUnchanged
    /\ RaceRest

(* release called by press, line 82 *)
RacePressKeyUp ==
    /\ Running /\ race.pp = "key_up"
    /\ down' = DriverEffect(down, "up", race.key, TRUE)
    /\ StepP("pop")
    /\ UNCHANGED <<held, lastClick, allowed>>
    /\ RaceGovUnchanged
    /\ RaceRest

(* release called by press, line 83 *)
RacePressPop ==
    /\ Running /\ race.pp = "pop"
    /\ held' = Pop(held, race.key)
    /\ StepP("held_check")
    /\ UNCHANGED <<lastClick, allowed, down>>
    /\ RaceGovUnchanged
    /\ RaceRest

(* press, line 75 *)
RacePressHeldCheck ==
    /\ Running /\ race.pp = "held_check"
    /\ StepP(IF IsHolding(held, race.key) THEN "stamp_click" ELSE "key_down")
    /\ UNCHANGED <<held, lastClick, allowed, down>>
    /\ RaceGovUnchanged
    /\ RaceRest

(* press, line 76 *)
RacePressKeyDown ==
    /\ Running /\ race.pp = "key_down"
    /\ down' = DriverEffect(down, "down", race.key, TRUE)
    /\ StepP("stamp_held")
    /\ UNCHANGED <<held, lastClick, allowed>>
    /\ RaceGovUnchanged
    /\ RaceRest

(* press, line 77: a dict store, which keeps the position of a key present *)
RacePressStampHeld ==
    /\ Running /\ race.pp = "stamp_held"
    /\ held' = IF IsHolding(held, race.key)
               THEN [j \in 1 .. Len(held) |->
                       IF held[j].key = race.key
                       THEN [key |-> race.key, since |-> race.at] ELSE held[j]]
               ELSE Append(held, [key |-> race.key, since |-> race.at])
    /\ StepP("stamp_click")
    /\ UNCHANGED <<lastClick, allowed, down>>
    /\ RaceGovUnchanged
    /\ RaceRest

(* press, line 78 *)
RacePressStampClick ==
    /\ Running /\ race.pp = "stamp_click"
    /\ lastClick' = [lastClick EXCEPT ![race.key] = race.at]
    /\ StepP("done")
    /\ UNCHANGED <<held, allowed, down>>
    /\ RaceGovUnchanged
    /\ RaceRest

(* A loop over race.snap: the position of its next statement *)
LoopEntry(snapshot, i, body, exit) == IF i > Len(snapshot) THEN exit ELSE body

(* panic_stop, line 91: list(self._held_keys.keys()) *)
RacePanicSnapshot ==
    /\ Running /\ race.other = "panic_stop" /\ race.qp = "snapshot"
    /\ race' = [race EXCEPT !.snap = held, !.i = 1,
                            !.qp = LoopEntry(held, 1, "key_up", "clear")]
    /\ UNCHANGED <<held, lastClick, allowed, down>>
    /\ RaceGovUnchanged
    /\ RaceRest

(* panic_stop, line 92 *)
RacePanicKeyUp ==
    /\ Running /\ race.other = "panic_stop" /\ race.qp = "key_up"
    /\ down' = DriverEffect(down, "up", race.snap[race.i].key, TRUE)
    /\ race' = [race EXCEPT !.i = @ + 1,
                            !.qp = LoopEntry(race.snap, race.i + 1, "key_up", "clear")]
    /\ UNCHANGED <<held, lastClick, allowed>>
    /\ RaceGovUnchanged
    /\ RaceRest

(* panic_stop, line 93 *)
RacePanicClear ==
    /\ Running /\ race.other = "panic_stop" /\ race.qp = "clear"
    /\ held' = <<>>
    /\ StepQ("done")
    /\ UNCHANGED <<lastClick, allowed, down>>
    /\ RaceGovUnchanged
    /\ RaceRest

(* set_allowed_keys, lines 50-54 *)
RaceAllowAssign ==
    /\ Running /\ race.other = "set_allowed_keys" /\ race.qp = "assign"
    /\ allowed' = race.arg
    /\ StepQ("snapshot")
    /\ UNCHANGED <<held, lastClick, down>>
    /\ RaceGovUnchanged
    /\ RaceRest

(* set_allowed_keys, line 55 *)
RaceAllowSnapshot ==
    /\ Running /\ race.other = "set_allowed_keys" /\ race.qp = "snapshot"
    /\ race' = [race EXCEPT !.snap = held, !.i = 1,
                            !.qp = LoopEntry(held, 1, "allow_check", "done")]
    /\ UNCHANGED <<held, lastClick, allowed, down>>
    /\ RaceGovUnchanged
    /\ RaceRest

(* set_allowed_keys, line 56 *)
RaceAllowCheck ==
    /\ Running /\ race.other = "set_allowed_keys" /\ race.qp = "allow_check"
    /\ race' = IF IsAllowed(allowed, race.snap[race.i].key)
               THEN [race EXCEPT !.i = @ + 1,
                                 !.qp = LoopEntry(race.snap, race.i + 1, "allow_check", "done")]
               ELSE [race EXCEPT !.qp = "release"]
    /\ UNCHANGED <<held, lastClick, allowed, down>>
    /\ RaceGovUnchanged
    /\ RaceRest

(* release called by set_allowed_keys, line 81 *)
RaceAllowReleaseCheck ==
    /\ Running /\ race.other = "set_allowed_keys" /\ race.qp = "release"
    /\ race' = IF IsHolding(held, race.snap[race.i].key)
               THEN [race EXCEPT !.qp = "key_up"]
               ELSE [race EXCEPT !.i = @ + 1,
                                 !.qp = LoopEntry(race.snap, race.i + 1, "allow_check", "done")]
    /\ UNCHANGED <<held, lastClick, allowed, down>>
    /\ RaceGovUnchanged
    /\ RaceRest

(* release called by set_allowed_keys, line 82 *)
RaceAllowKeyUp ==
    /\ Running /\ race.other = "set_allowed_keys" /\ race.qp = "key_up"
    /\ down' = DriverEffect(down, "up", race.snap[race.i].key, TRUE)
    /\ StepQ("pop")
    /\ UNCHANGED <<held, lastClick, allowed>>
    /\ RaceGovUnchanged
    /\ RaceRest

(* release called by set_allowed_keys, line 83 *)
RaceAllowPop ==
    /\ Running /\ race.other = "set_allowed_keys" /\ race.qp = "pop"
    /\ held' = Pop(held, race.snap[race.i].key)
    /\ race' = [race EXCEPT !.i = @ + 1,
                            !.qp = LoopEntry(race.snap, race.i + 1, "allow_check", "done")]
    /\ UNCHANGED <<lastClick, allowed, down>>
    /\ RaceGovUnchanged
    /\ RaceRest

RaceNext ==
    \/ RaceSetupPress
    \/ RaceSetupAdvance
    \/ RaceStart
    \/ RacePressAllowed
    \/ RacePressRate
    \/ RacePressExpiry
    \/ RacePressReleaseCheck
    \/ RacePressKeyUp
    \/ RacePressPop
    \/ RacePressHeldCheck
    \/ RacePressKeyDown
    \/ RacePressStampHeld
    \/ RacePressStampClick
    \/ RacePanicSnapshot
    \/ RacePanicKeyUp
    \/ RacePanicClear
    \/ RaceAllowAssign
    \/ RaceAllowSnapshot
    \/ RaceAllowCheck
    \/ RaceAllowReleaseCheck
    \/ RaceAllowKeyUp
    \/ RaceAllowPop

SpecRace == RaceInit /\ [][RaceNext]_vars

(* The two serial orders, from the state the race began in *)
RaceEntry == [held |-> race.init.held, lastClick |-> race.init.lastClick,
              allowed |-> race.init.allowed, down |-> race.init.down,
              calls |-> <<>>, raised |-> FALSE]

Other(c) == IF race.other = "panic_stop" THEN PanicStop(c, {})
            ELSE SetAllowedKeys(c, race.arg, {})

PressFirst == Other(Press(RaceEntry, race.key, race.at, {}))

OtherFirst == Press(Other(RaceEntry), race.key, race.at, {})

-----------------------------------------------------------------------------
(* Part 4: the TaskManager.  A task is [id, description, state, history];    *)
(* the registry keeps insertion order and task ids are 1, 2, ... in order of *)
(* creation (uuid4 ids: fresh, without order).  A row of tasks.log is        *)
(* [task_id, state, message]; its timestamp column is left out.  A message   *)
(* is the summary string: what happened, to which description, and why.      *)
(* Appending to the log may fail with an OSError, before anything is written. *)

TaskStates == {"new", "running", "paused", "canceled", "done"}

Descriptions == {"collect_wood", "stop_here"}

Reasons == {"asked"}

TaskIds == 1 .. MaxTasks

Header == [task_id |-> "task_id", state |-> "state", message |-> "message"]

(* A row left by an earlier session *)
OldRow == [task_id |-> 0, state |-> "done", message |-> "earlier_session"]

Summary(kind, description, reason) ==
    [kind |-> kind, description |-> description, reason |-> reason]

(* A context m is the registry, the log file, the blackboard's current_task *)
(* and the exception propagating, if any.                                    *)
TaskEnter == [tasks |-> tasks, audit |-> audit, goal |-> board.current_task,
              raised |-> "none"]

Registered(m, id) == id \in 1 .. Len(m.tasks)

(* Variant: the row written without the history entry *)
LogNoHistory(m, id, message, ok) ==
    IF ~ok THEN [m EXCEPT !.raised = "OSError"]
    ELSE [m EXCEPT !.audit = Append(@, [task_id |-> id, state |-> m.tasks[id].state,
                                        message |-> message])]

Log(m, id, message, ok) ==
    IF ~ok THEN [m EXCEPT !.raised = "OSError"]
    ELSE [m EXCEPT !.audit = Append(@, [task_id |-> id, state |-> m.tasks[id].state,
                                        message |-> message]),
                   !.tasks[id].history = Append(@, message)]

(* Variant: the goal description kept when the task is gone *)
UpdateBlackboardSticky(m, description) ==
    IF description = "None" THEN m ELSE [m EXCEPT !.goal = description]

UpdateBlackboard(m, description) == [m EXCEPT !.goal = description]

CreateTask(m, description, reason, ok) ==
    LET id == Len(m.tasks) + 1
        m1 == [m EXCEPT !.tasks = Append(@, [id |-> id, description |-> description,
                                             state |-> "new", history |-> <<>>])]
        m2 == Log(m1, id, Summary("created", description, reason), ok)
    IN IF m2.raised # "none" THEN m2 ELSE UpdateBlackboard(m2, description)

(* Variant: start allowed from every state *)
StartTaskFromAny(m, id, reason, ok) ==
    IF ~Registered(m, id) THEN [m EXCEPT !.raised = "KeyError"]
    ELSE LET m1 == [m EXCEPT !.tasks[id].state = "running"]
             m2 == Log(m1, id, Summary("started", m.tasks[id].description, reason), ok)
         IN IF m2.raised # "none" THEN m2
            ELSE UpdateBlackboard(m2, m.tasks[id].description)

StartTask(m, id, reason, ok) ==
    IF ~Registered(m, id) THEN [m EXCEPT !.raised = "KeyError"]
    ELSE IF m.tasks[id].state \notin {"new", "paused"} THEN [m EXCEPT !.raised = "ValueError"]
    ELSE LET m1 == [m EXCEPT !.tasks[id].state = "running"]
             m2 == Log(m1, id, Summary("started", m.tasks[id].description, reason), ok)
         IN IF m2.raised # "none" THEN m2
            ELSE UpdateBlackboard(m2, m.tasks[id].description)

(* Variant: the state assigned before the check of the source state *)
PauseTaskAssignFirst(m, id, reason, ok) ==
    IF ~Registered(m, id) THEN [m EXCEPT !.raised = "KeyError"]
    ELSE IF m.tasks[id].state # "running"
         THEN [m EXCEPT !.tasks[id].state = "paused", !.raised = "ValueError"]
    ELSE LET m1 == [m EXCEPT !.tasks[id].state = "paused"]
             m2 == Log(m1, id, Summary("paused", m.tasks[id].description, reason), ok)
         IN IF m2.raised # "none" THEN m2
            ELSE UpdateBlackboard(m2, m.tasks[id].description)

PauseTask(m, id, reason, ok) ==
    IF ~Registered(m, id) THEN [m EXCEPT !.raised = "KeyError"]
    ELSE IF m.tasks[id].state # "running" THEN [m EXCEPT !.raised = "ValueError"]
    ELSE LET m1 == [m EXCEPT !.tasks[id].state = "paused"]
             m2 == Log(m1, id, Summary("paused", m.tasks[id].description, reason), ok)
         IN IF m2.raised # "none" THEN m2
            ELSE UpdateBlackboard(m2, m.tasks[id].description)

CancelTask(m, id, reason, ok) ==
    IF ~Registered(m, id) THEN [m EXCEPT !.raised = "KeyError"]
    ELSE IF m.tasks[id].state \in {"canceled", "done"} THEN [m EXCEPT !.raised = "ValueError"]
    ELSE LET m1 == [m EXCEPT !.tasks[id].state = "canceled"]
             m2 == Log(m1, id, Summary("canceled", m.tasks[id].description, reason), ok)
         IN IF m2.raised # "none" THEN m2 ELSE UpdateBlackboard(m2, "None")

CompleteTask(m, id, reason, ok) ==
    IF ~Registered(m, id) THEN [m EXCEPT !.raised = "KeyError"]
    ELSE IF m.tasks[id].state # "running" THEN [m EXCEPT !.raised = "ValueError"]
    ELSE LET m1 == [m EXCEPT !.tasks[id].state = "done"]
             m2 == Log(m1, id, Summary("completed", m.tasks[id].description, reason), ok)
         IN IF m2.raised # "none" THEN m2 ELSE UpdateBlackboard(m2, "None")

(* NoTask stands for the None that get-like calls return *)
NoTask == 0

RECURSIVE CurrentTaskLoop(_, _)
RECURSIVE CurrentTaskLast(_, _)

(* Variant: the loop that keeps the RUNNING task iterated last *)
CurrentTaskLast(ts, i) ==
    IF i < 1 THEN NoTask
    ELSE IF ts[i].state = "running" THEN ts[i].id
    ELSE CurrentTaskLast(ts, i - 1)

(* The loop over self._tasks.values(), in insertion order, from position i: *)
(* the id of the first RUNNING task met, NoTask when the loop runs out       *)
CurrentTaskLoop(ts, i) ==
    IF i > Len(ts) THEN NoTask
    ELSE IF ts[i].state = "running" THEN ts[i].id
    ELSE CurrentTaskLoop(ts, i + 1)

(* Variant *)
CurrentTaskNewest(ts) == CurrentTaskLast(ts, Len(ts))

CurrentTask(ts) == CurrentTaskLoop(ts, 1)

(* TaskManager(log_dir, blackboard): the header is written unless the file   *)
(* is already there.                                                         *)
TasksInit ==
    /\ GovInit
    /\ maxHold = 0
    /\ clickPeriod = 1
    /\ LiveIdle
    /\ OverlayIdle
    /\ RaceIdle
    /\ TreeIdle
    /\ BoardIdle
    /\ tasks = <<>>
    /\ audit \in {<<Header>>, <<Header, OldRow>>}
    /\ taskOp = [name |-> "init", id |-> 0, raised |-> "none", errors |-> 0,
                 published |-> NoTask,
                 pre |-> [tasks |-> <<>>, audit |-> <<>>, goal |-> "None"]]

(* The operations that end with _update_blackboard(task) *)
Publishing == {"create_task", "start_task", "pause_task"}

(* The call returns or raises: the registry, the log and the blackboard are  *)
(* what the operation left.  taskOp.published is the task of the last        *)
(* publishing operation that returned.  The log is capped at MaxRows rows, and the      *)
(* appends that fail are counted and capped at MaxIoErrors.                  *)
CommitTask(m, name, id) ==
    /\ Len(m.audit) <= MaxRows
    /\ m.raised = "OSError" => taskOp.errors < MaxIoErrors
    /\ tasks' = m.tasks
    /\ audit' = m.audit
    /\ board' = [board EXCEPT !.current_task = m.goal]
    /\ taskOp' = [name |-> name, id |-> id, raised |-> m.raised,
                  errors |-> taskOp.errors + (IF m.raised = "OSError" THEN 1 ELSE 0),
                  published |-> IF m.raised = "none" /\ name \in Publishing THEN id
                                ELSE taskOp.published,
                  pre |-> [tasks |-> tasks, audit |-> audit, goal |-> board.current_task]]
    /\ UNCHANGED <<govVars, pc, params, stopEvent, termination, exc, capture, ocr, tree,
                   previousStatus, emitted, demo, ticks, teardown, stopAt, plans, frame, race,
                   bt,
                   recorded, overlay, overlayOps>>

DoCreateTask ==
    /\ Len(tasks) < MaxTasks
    /\ \E d \in Descriptions, r \in Reasons, ok \in BOOLEAN :
          CommitTask(CreateTask(TaskEnter, d, r, ok), "create_task", Len(tasks) + 1)

DoStartTask ==
    \E id \in TaskIds, r \in Reasons, ok \in BOOLEAN :
        CommitTask(StartTask(TaskEnter, id, r, ok), "start_task", id)

DoPauseTask ==
    \E id \in TaskIds, r \in Reasons, ok \in BOOLEAN :
        CommitTask(PauseTask(TaskEnter, id, r, ok), "pause_task", id)

DoCancelTask ==
    \E id \in TaskIds, r \in Reasons, ok \in BOOLEAN :
        CommitTask(CancelTask(TaskEnter, id, r, ok), "cancel_task", id)

DoCompleteTask ==
    \E id \in TaskIds, r \in Reasons, ok \in BOOLEAN :
        CommitTask(CompleteTask(TaskEnter, id, r, ok), "complete_task", id)

TasksNext ==
    \/ DoCreateTask
    \/ DoStartTask
    \/ DoPauseTask
    \/ DoCancelTask
    \/ DoCompleteTask

SpecTasks == TasksInit /\ [][TasksNext]_vars

-----------------------------------------------------------------------------
(* The planner over the TaskManager.  A plan(goal, blackboard) call reads    *)
(* the manager, if one is bound, and builds a tree; the tree it returned is  *)
(* kept in `tree`, the call in taskOp.                                       *)

(* Goal strings: the two skills, the configured default, an unknown one *)
PlanGoals == {"forward", "stop", "idle", "dance"}

(* task.description of TaskManager.current_task(), or None *)
CurrentDescription(ts) ==
    LET running == {i \in 1 .. Len(ts) : ts[i].state = "running"}
    IN IF running = {} THEN "None"
       ELSE ts[CHOOSE i \in running : \A j \in running : i <= j].description

(* Planner.plan with or without a bound manager *)
PlanWith(bound, goal, ts) ==
    Plan(goal, IF bound THEN CurrentDescription(ts) ELSE "None")

DoPlan ==
    /\ taskOp.name # "plan"
    /\ \E bound \in BOOLEAN, goal \in PlanGoals :
          /\ tree' = PlanWith(bound, goal, tasks)
          /\ taskOp' = [name |-> "plan", id |-> 0, raised |-> "none",
                        errors |-> taskOp.errors, published |-> taskOp.published,
                        bound |-> bound, goal |-> goal,
                        pre |-> [tasks |-> tasks, audit |-> audit,
                                 goal |-> board.current_task]]
    /\ UNCHANGED <<govVars, pc, params, stopEvent, termination, exc, capture, ocr,
                   previousStatus, emitted, board, demo, ticks, teardown, stopAt, plans,
                   frame, race, tasks, audit, bt, recorded,
                   overlay, overlayOps>>

(* The TaskManager with an audit log whose writes succeed: every operation  *)
(* returns or is rejected.                                                   *)
GoalNext == TasksNext /\ taskOp'.raised # "OSError"

SpecGoal == TasksInit /\ [][GoalNext]_vars

(* TaskManager.current_task() called between the operations *)
DoCurrentTask ==
    /\ taskOp.name # "current_task"
    /\ taskOp' = [name |-> "current_task", id |-> CurrentTask(tasks), raised |-> "none",
                  errors |-> taskOp.errors, published |-> taskOp.published,
                  pre |-> [tasks |-> tasks, audit |-> audit, goal |-> board.current_task]]
    /\ UNCHANGED <<govVars, liveVars, race, tasks, audit, bt, recorded, overlay,
                   overlayOps>>

CurrentNext ==
    \/ TasksNext
    \/ DoCurrentTask

SpecCurrent == TasksInit /\ [][CurrentNext]_vars

(* The planner reads the registry only: the audit log's write failures, which *)
(* leave the registry as a successful write does, are left out here.         *)
PlanNext ==
    \/ TasksNext /\ taskOp'.raised # "OSError"
    \/ DoPlan

SpecPlan == TasksInit /\ [][PlanNext]_vars

-----------------------------------------------------------------------------
(* The blackboard alone: any sequence of record_reason and push_action      *)
(* calls.  The k-th call is given the reason k, so that what the history     *)
(* holds tells which calls it kept.                                          *)

BoardInit ==
    /\ GovInit
    /\ maxHold = 0
    /\ clickPeriod = 1
    /\ LiveIdle
    /\ OverlayIdle
    /\ RaceIdle
    /\ TasksIdle
    /\ TreeIdle
    /\ recorded = <<>>

BoardRest == UNCHANGED <<govVars, pc, params, stopEvent, termination, exc, capture, ocr,
                         tree, previousStatus, emitted, demo, ticks, teardown, stopAt, plans,
                         frame, race, tasks, audit, taskOp, bt, overlay,
                         overlayOps>>

DoRecordReason ==
    /\ Len(recorded) < MaxRecords
    /\ LET reason == Len(recorded) + 1
       IN /\ board' = RecordReason(board, reason)
          /\ recorded' = Append(recorded, reason)
    /\ BoardRest

DoPushAction ==
    /\ Len(recorded) < MaxRecords
    /\ LET description == Len(recorded) + 1
       IN /\ board' = [board EXCEPT !.action_history = PushAction(@, description)]
          /\ recorded' = Append(recorded, description)
    /\ BoardRest

BoardNext ==
    \/ DoRecordReason
    \/ DoPushAction

SpecBoard == BoardInit /\ [][BoardNext]_vars

-----------------------------------------------------------------------------
(* Part 5: one composite node over children that return given statuses.     *)
(* Child i is an action that records i on a fresh blackboard and returns     *)
(* results[i]; the blackboard's history after the tick is the list of the    *)
(* children ticked, in the order ticked.                                     *)

Statuses == {"SUCCESS", "FAILURE", "RUNNING"}

Composites == {"sequence", "selector"}

ResultLists == UNION {[1 .. n -> Statuses] : n \in 0 .. MaxChildren}

Probe(i, status) == [type |-> "probe", name |-> i, returns |-> status]

Composite(kind, results) ==
    [type |-> kind, nodes |-> [i \in 1 .. Len(results) |-> Probe(i, results[i])]]

FreshBoard == [timestamp |-> 0, current_task |-> "None", last_action_reason |-> "None",
               action_history |-> <<>>]

TreeInit ==
    /\ GovInit
    /\ maxHold = 0
    /\ clickPeriod = 1
    /\ LiveIdle
    /\ OverlayIdle
    /\ RaceIdle
    /\ TasksIdle
    /\ BoardIdle
    /\ \E kind \in Composites, results \in ResultLists :
          bt = [phase |-> "built", kind |-> kind, results |-> results,
                status |-> "None", ticked |-> <<>>]

(* node.tick(blackboard, inputs) *)
TickTree ==
    /\ bt.phase = "built"
    /\ LET x == TickNode(Composite(bt.kind, bt.results),
                         [gov |-> Enter, board |-> FreshBoard, status |-> "None"], now, {})
       IN bt' = [bt EXCEPT !.phase = "ticked", !.status = x.status,
                           !.ticked = x.board.action_history]
    /\ UNCHANGED <<govVars, liveVars, race, tasks, audit, taskOp, recorded, overlay,
                   overlayOps>>

TreeNext == TickTree

SpecTree == TreeInit /\ [][TreeNext]_vars

-----------------------------------------------------------------------------
(* Part 6: the ROI overlay window, ui/roi_overlay.py RoiOverlayController.    *)
(* The overlay is [setup_mode, preview_enabled, visible, roi, band, origin,  *)
(* hud]: visible is QWidget.isVisible(), band the rubber band's geometry,    *)
(* hud the visibility of the label.  A rectangle is its side, 0 for an empty *)
(* one; its position plays no part in what follows.  NoRoi stands for a      *)
(* current ROI of None and NoBand for a rubber band of None.  Press points   *)
(* are away from the screen's origin.                                        *)

MaxSide == 2

Sides == 1 .. MaxSide

NoRoi == 0

NoBand == -1

Rois == {NoRoi} \cup Sides

(* RoiOverlayController.__init__: a new widget is not shown *)
NewOverlay(roi, preview_enabled) ==
    [phase |-> "built", setup_mode |-> FALSE, preview_enabled |-> preview_enabled,
     visible |-> FALSE, roi |-> roi, band |-> NoBand, origin |-> FALSE, hud |-> FALSE]

EnterSetupMode(o) ==
    [o EXCEPT !.setup_mode = TRUE, !.band = 0, !.origin = FALSE, !.hud = TRUE,
              !.visible = TRUE]

LeaveSetupMode(o) ==
    [o EXCEPT !.setup_mode = FALSE, !.band = NoBand, !.origin = FALSE, !.hud = FALSE,
              !.visible = IF o.preview_enabled THEN @ ELSE FALSE]

SetRoi(o, roi) ==
    [o EXCEPT !.roi = roi,
              !.visible = IF ~o.setup_mode /\ ~o.preview_enabled THEN FALSE ELSE @]

(* Variant: the preview that is never hidden again *)
SetPreviewEnabledNeverHides(o, enabled) ==
    [o EXCEPT !.preview_enabled = enabled,
              !.visible = IF enabled THEN TRUE ELSE @]

SetPreviewEnabled(o, enabled) ==
    [o EXCEPT !.preview_enabled = enabled,
              !.visible = IF enabled THEN TRUE
                          ELSE IF ~o.setup_mode THEN FALSE ELSE @]

TogglePreview(o) == SetPreviewEnabled(o, ~o.preview_enabled)

(* QWidget.show() *)
ShowOverlay(o) == [o EXCEPT !.visible = TRUE]

CommitRoi(o) == IF o.roi = NoRoi THEN o ELSE LeaveSetupMode(o)

CancelRoi(o) == LeaveSetupMode(o)

MousePressEvent(o, left) ==
    IF ~o.setup_mode \/ ~left THEN o
    ELSE [o EXCEPT !.origin = TRUE, !.band = IF @ = NoBand THEN @ ELSE 1]

MouseMoveEvent(o, side) ==
    IF ~o.setup_mode \/ ~o.origin \/ o.band = NoBand THEN o
    ELSE [o EXCEPT !.band = side]

MouseReleaseEvent(o, left) ==
    IF ~o.setup_mode \/ ~left THEN o
    ELSE IF o.band = NoBand \/ ~o.origin THEN o
    ELSE IF o.band <= 0 THEN o
    ELSE [o EXCEPT !.roi = o.band]

OverlayKeys == {"Return", "Escape", "other"}

KeyPressEvent(o, key) ==
    IF ~o.setup_mode THEN o
    ELSE IF key = "Return" THEN (IF o.roi # NoRoi THEN CommitRoi(o) ELSE o)
    ELSE IF key = "Escape" THEN CancelRoi(o)
    ELSE o

OverlayRest == UNCHANGED <<govVars, liveVars, race, tasks, audit, taskOp, bt, recorded>>

OverlayInit ==
    /\ GovInit
    /\ maxHold = 0
    /\ clickPeriod = 1
    /\ LiveIdle
    /\ RaceIdle
    /\ TasksIdle
    /\ TreeIdle
    /\ BoardIdle
    /\ \E roi \in Rois, enabled \in BOOLEAN : overlay = NewOverlay(roi, enabled)
    /\ overlayOps = <<>>

(* Record the operation with the state it started from; keep the last two *)
CommitOverlay(o, name) ==
    /\ overlay' = o
    /\ overlayOps' = LET all == Append(overlayOps, [name |-> name, pre |-> overlay])
                     IN IF Len(all) > 2 THEN Tail(all) ELSE all
    /\ OverlayRest

DoEnterSetupMode == CommitOverlay(EnterSetupMode(overlay), "enter_setup_mode")

DoLeaveSetupMode == CommitOverlay(LeaveSetupMode(overlay), "leave_setup_mode")

DoSetRoi == \E roi \in Sides : CommitOverlay(SetRoi(overlay, roi), "set_roi")

DoTogglePreview == CommitOverlay(TogglePreview(overlay), "toggle_preview")

DoSetPreviewEnabled ==
    \E enabled \in BOOLEAN :
        CommitOverlay(SetPreviewEnabled(overlay, enabled),
                      IF enabled THEN "set_preview_enabled(True)"
                      ELSE "set_preview_enabled(False)")

(* run_ui: overlay.set_preview_enabled(True) and then overlay.show() *)
DoShowOverlay ==
    /\ overlayOps # <<>>
    /\ overlayOps[Len(overlayOps)].name = "set_preview_enabled(True)"
    /\ CommitOverlay(ShowOverlay(overlay), "show")

DoMousePress ==
    \E left \in BOOLEAN : CommitOverlay(MousePressEvent(overlay, left), "mousePressEvent")

DoMouseMove ==
    \E side \in 0 .. MaxSide : CommitOverlay(MouseMoveEvent(overlay, side), "mouseMoveEvent")

DoMouseRelease ==
    \E left \in BOOLEAN :
        CommitOverlay(MouseReleaseEvent(overlay, left), "mouseReleaseEvent")

DoKeyPress ==
    \E key \in OverlayKeys : CommitOverlay(KeyPressEvent(overlay, key), "keyPressEvent")

OverlayNext ==
    \/ DoEnterSetupMode
    \/ DoLeaveSetupMode
    \/ DoSetRoi
    \/ DoTogglePreview
    \/ DoSetPreviewEnabled
    \/ DoShowOverlay
    \/ DoMousePress
    \/ DoMouseMove
    \/ DoMouseRelease
    \/ DoKeyPress

SpecOverlay == OverlayInit /\ [][OverlayNext]_vars

-----------------------------------------------------------------------------
(* Part 7: one action node ticked on a governor in any state callers can put *)
(* it in: keys pressed, the allow-list set, the clock advanced.              *)

ActionNames == {"move_forward", "turn_right", "stop"}

(* ActionNode.tick(blackboard, inputs) *)
DoTickAction ==
    /\ ticks < MaxTicks
    /\ \E name \in ActionNames, F \in FailSets :
          LET x == TickNode(ActionNode(name),
                            [gov |-> Enter, board |-> board, status |-> "None"], now, F)
          IN /\ CommitGov(x.gov, "tick", name)
             /\ board' = x.board
             /\ bt' = [phase |-> "action", name |-> name, status |-> x.status,
                       before |-> board.action_history]
    /\ ticks' = ticks + 1
    /\ UNCHANGED <<pc, params, stopEvent, termination, exc, capture, ocr, tree,
                   previousStatus, emitted, demo, teardown, stopAt, plans, frame>>
    /\ UNCHANGED <<race, tasks, audit, taskOp, recorded, overlay, overlayOps>>

(* The caller's preparation, its driver calls succeeding: the allow-list is  *)
(* set before anything else, keys are pressed before the first tick.         *)
PrepareAllowedKeys ==
    /\ op.name = "init"
    /\ \E a \in {Unrestricted} \cup {NewAllowed(s) : s \in SUBSET RawKeys} :
          Commit(SetAllowedKeys(Enter, a, {}), "set_allowed_keys", "")

PreparePress ==
    /\ ticks = 0
    /\ \E k \in Keys : Commit(Press(Enter, k, now, {}), "press", k)

ActionsInit == Init /\ clickPeriod = 1

ActionsNext ==
    \/ Advance
    \/ PrepareAllowedKeys
    \/ PreparePress
    \/ DoTickAction

SpecActions == ActionsInit /\ [][ActionsNext]_vars

-----------------------------------------------------------------------------
(* Properties of the governor *)

CallsOf(kind, k) == {i \in 1 .. Len(calls) : calls[i].kind = kind /\ calls[i].key = k}

AllCallsOk == \A i \in 1 .. Len(calls) : calls[i].ok

(* The allow-list a excludes k: it is not None and lowercase k is not in it *)
Excludes(a, k) == ~a.none /\ Lower(k) \notin a.keys

(* C1: press(k) on a key the current allow-list does not permit issues no    *)
(* driver key-down for k and does not add k to the held-set, whatever        *)
(* governor operations came before.                                          *)
C1_DisallowedPressNeverHolds ==
    (op.name = "press" /\ Excludes(pre.allowed, op.key)) =>
        /\ CallsOf("down", op.key) = {}
        /\ IsHolding(held, op.key) => IsHolding(pre.held, op.key)
        /\ ~op.raised

C1_Witness ==
    /\ op.name = "press"
    /\ Excludes(pre.allowed, op.key)
    /\ pre.allowed.keys # {}
    /\ ~IsHolding(held, op.key)
    /\ held # <<>>

(* C2: after panic_stop() the held-set is empty, also when the driver raises *)
(* on some of the key-up calls.                                              *)
C2_PanicStopEmptiesHeldSet ==
    op.name = "panic_stop" => held = <<>>

(* C3: panic_stop() never raises, and a key-up is attempted for every key    *)
(* that was in the held-set, also when the driver raises on one of them.     *)
C3_PanicStopNeverRaises ==
    op.name = "panic_stop" =>
        /\ ~op.raised
        /\ \A k \in HeldKeys(pre.held) : CallsOf("up", k) # {}

(* C5: a press(k) earlier than one click period after the last accepted      *)
(* press(k) is dropped: it raises nothing, makes no driver call and leaves   *)
(* the held-set, the hold starts and the last-click times as they were.      *)
C5_RateLimitedPressDropped ==
    (/\ op.name = "press"
     /\ pre.lastClick[op.key] # NoTime
     /\ op.at - pre.lastClick[op.key] < clickPeriod) =>
        /\ ~op.raised
        /\ calls = <<>>
        /\ held = pre.held
        /\ lastClick = pre.lastClick
        /\ down = pre.down

C5_Witness ==
    /\ op.name = "press"
    /\ pre.lastClick[op.key] # NoTime
    /\ op.at > pre.lastClick[op.key]
    /\ op.at - pre.lastClick[op.key] < clickPeriod
    /\ ~Excludes(pre.allowed, op.key)
    /\ ~IsHolding(pre.held, op.key)

(* C6: when update() returns, every key whose hold had lasted longer than    *)
(* max_hold_sec has received one driver key-up and left the held-set, also   *)
(* a key pressed again since it was acquired; every other key is still held  *)
(* with its hold start and received no driver call.                          *)
C6_UpdateReleasesLongHolds ==
    (op.name = "update" /\ ~op.raised) =>
        /\ held = SelectSeq(pre.held, LAMBDA e : ~(op.at - e.since > maxHold))
        /\ \A i \in 1 .. Len(held) : ~(op.at - held[i].since > maxHold)
        /\ \A i \in 1 .. Len(pre.held) :
              LET e == pre.held[i]
              IN IF op.at - e.since > maxHold
                 THEN Cardinality(CallsOf("up", e.key)) = 1 /\ CallsOf("down", e.key) = {}
                 ELSE CallsOf("up", e.key) = {} /\ CallsOf("down", e.key) = {}
        /\ Len(calls) = Len(pre.held) - Len(held)

C6_Witness ==
    /\ op.name = "update"
    /\ ~op.raised
    /\ \E i \in 1 .. Len(pre.held) :
          /\ op.at - pre.held[i].since > maxHold
          /\ pre.lastClick[pre.held[i].key] > pre.held[i].since
          /\ ~IsHolding(held, pre.held[i].key)
    /\ \E i \in 1 .. Len(pre.held) :
          /\ ~(op.at - pre.held[i].since > maxHold)
          /\ IsHolding(held, pre.held[i].key)

(* C7 as claimed: every press of a key held longer than max_hold_sec, at any *)
(* time and for any limits, makes the driver receive a key-up and then a     *)
(* key-down for it and restarts the hold at the time of that press (driver   *)
(* calls succeeding).                                                        *)
C7_AnyPressRefreshesLongHold ==
    (/\ op.name = "press"
     /\ IsHolding(pre.held, op.key)
     /\ op.at - Since(pre.held, op.key) > maxHold
     /\ AllCallsOk) =>
        /\ calls = << [kind |-> "up", key |-> op.key, ok |-> TRUE],
                      [kind |-> "down", key |-> op.key, ok |-> TRUE] >>
        /\ IsHolding(held, op.key)
        /\ Since(held, op.key) = op.at

(* C7 amended: a press of a key held longer than max_hold_sec that passes    *)
(* the allow-list and click-rate guards issues a key-up for it first, then,  *)
(* the key-up accepted, a key-down, and, both accepted, holds the key afresh *)
(* from the time of that press.                                              *)
C7_GuardedPressRefreshesLongHold ==
    (/\ op.name = "press"
     /\ IsHolding(pre.held, op.key)
     /\ op.at - Since(pre.held, op.key) > maxHold
     /\ ~Excludes(pre.allowed, op.key)
     /\ ~(pre.lastClick[op.key] # NoTime /\ op.at - pre.lastClick[op.key] < clickPeriod)) =>
        /\ Len(calls) >= 1
        /\ calls[1].kind = "up" /\ calls[1].key = op.key
        /\ calls[1].ok => /\ Len(calls) = 2
                          /\ calls[2].kind = "down" /\ calls[2].key = op.key
        /\ ~op.raised => /\ IsHolding(held, op.key)
                         /\ Since(held, op.key) = op.at
                         /\ lastClick[op.key] = op.at
                         /\ Len(held) = Len(pre.held)

C7_Witness ==
    /\ op.name = "press"
    /\ IsHolding(pre.held, op.key)
    /\ op.at - Since(pre.held, op.key) > maxHold
    /\ Len(calls) = 2
    /\ ~op.raised
    /\ Since(held, op.key) = op.at
    /\ Len(held) = 2

(* C8: a driver call that fails inside press, release or move_mouse is       *)
(* reported to the caller and leaves the held-set exactly as it was before   *)
(* the call, a press on a key whose hold has expired included.               *)
C8_FailedCallKeepsHeldSet ==
    (op.name \in {"press", "release", "move_mouse"} /\ ~AllCallsOk) =>
        /\ op.raised
        /\ held = pre.held

(* C9: when set_allowed_keys(keys) returns, no held key is excluded by the   *)
(* new allow-list: each held key it excludes has received one driver key-up  *)
(* and left the held-set, and the held keys it permits are untouched.        *)
C9_SetAllowedKeysReleasesExcluded ==
    (op.name = "set_allowed_keys" /\ ~op.raised) =>
        /\ \A k \in HeldKeys(held) : ~Excludes(allowed, k)
        /\ held = SelectSeq(pre.held, LAMBDA e : ~Excludes(allowed, e.key))
        /\ \A i \in 1 .. Len(pre.held) :
              LET k == pre.held[i].key
              IN IF Excludes(allowed, k)
                 THEN Cardinality(CallsOf("up", k)) = 1 /\ CallsOf("down", k) = {}
                 ELSE CallsOf("up", k) = {} /\ CallsOf("down", k) = {}
        /\ Len(calls) = Len(pre.held) - Len(held)

C9_Witness ==
    /\ op.name = "set_allowed_keys"
    /\ ~op.raised
    /\ Len(pre.held) = 2
    /\ Len(held) = 1
    /\ Len(calls) = 1
    /\ ~allowed.none

(* C10: release(k) on a held key issues exactly one driver call, a key-up    *)
(* for k, and, the driver accepting it, removes k and nothing else from the  *)
(* held-set; release(k) on a key not held makes no driver call, changes      *)
(* nothing and does not raise; so a second release(k) after a release(k)     *)
(* that returned changes nothing.                                            *)
C10_ReleaseOnceThenNoOp ==
    op.name = "release" =>
        /\ IsHolding(pre.held, op.key) =>
              /\ Len(calls) = 1
              /\ calls[1].kind = "up" /\ calls[1].key = op.key
              /\ calls[1].ok => (held = Pop(pre.held, op.key) /\ ~op.raised)
        /\ ~IsHolding(pre.held, op.key) =>
              /\ calls = <<>>
              /\ ~op.raised
              /\ Snapshot = pre
        /\ ~op.raised =>
              \A F \in FailSets :
                  LET again == Release(Enter, op.key, F)
                  IN /\ again.calls = <<>>
                     /\ ~again.raised
                     /\ again.held = held
                     /\ again.down = down

C10_Witness ==
    /\ op.name = "release"
    /\ ~op.raised
    /\ IsHolding(pre.held, op.key)
    /\ ~IsHolding(held, op.key)
    /\ held # <<>>

(* C11: between governor operations a key is in the held-set exactly when   *)
(* the driver has accepted a key-down for it that no accepted key-up has     *)
(* followed, whichever driver calls failed along the way.                    *)
C11_HeldSetMatchesDriver == HeldKeys(held) = down

(* C12: a panic_stop or a set_allowed_keys on another thread cannot race a   *)
(* press: whatever the interleaving of their statements, once both have      *)
(* returned the held-set and the driver's key state are those of press then  *)
(* the other operation, or of the other operation then press.                *)
C12_RaceIsSerializable ==
    (Running /\ race.pp = "done" /\ race.qp = "done") =>
        \E s \in {PressFirst, OtherFirst} :
            /\ HeldKeys(held) = HeldKeys(s.held)
            /\ down = s.down

-----------------------------------------------------------------------------
(* Properties of run_live *)

TeardownRank(call) ==
    CASE call = "panic_stop"      -> 1
      [] call = "capture.stop"    -> 2
      [] call = "ocr.stop"        -> 3
      [] call = "status_callback" -> 4

C13_DriverFailureKeepsLoop ==
    (op.name = "tick" /\ op.raised) => (pc \in LoopPcs /\ exc = "none")

(* C14: a driver failure inside the panic stop of the teardown never blocks  *)
(* the shutdown: run_live still stops capture and OCR, still emits its       *)
(* terminal status, and does not pass the failure on to its caller.          *)
C14_PanicFailureKeepsShutdown ==
    (pc = "done" /\ op.name = "panic_stop" /\ op.raised) =>
        /\ capture => \E i \in 1 .. Len(teardown) : teardown[i] = "capture.stop"
        /\ ocr => \E i \in 1 .. Len(teardown) : teardown[i] = "ocr.stop"
        /\ params.callback => (emitted # <<>> /\ emitted[Len(emitted)] = termination)
        /\ termination \in {"REQUESTED_STOP", "INTERRUPTED"} => exc = "none"


(* C15: once the stop signal is set the loop responds within one iteration:  *)
(* at most one tree tick happens after the signal was set (the one of the    *)
(* iteration already past its check), the next check observes the signal and *)
(* leaves the loop without ticking, and run_live ends with the terminal      *)
(* status REQUESTED_STOP.                                                    *)
C15_StopWithinOneIteration ==
    /\ [](stopEvent => ticks - stopAt <= 1)
    /\ [][(stopEvent /\ pc = "stop_check" /\ pc' # pc) =>
              (pc' = "panic" /\ ticks' = ticks)]_vars
    /\ stopEvent ~> (pc = "done" /\ termination = "REQUESTED_STOP" /\ exc = "none")

C15_Witness ==
    /\ pc = "done"
    /\ termination = "REQUESTED_STOP"
    /\ stopEvent
    /\ ticks - stopAt = 1
    /\ teardown[1] = "panic_stop"


-----------------------------------------------------------------------------
(* Properties of the TaskManager *)

Transitions == {"start_task", "pause_task", "cancel_task", "complete_task"}

(* The state machine as documented: the states an operation is legal from,   *)
(* and the state it leads to.                                                *)
LegalFrom(name) ==
    CASE name = "start_task"    -> {"new", "paused"}
      [] name = "pause_task"    -> {"running"}
      [] name = "cancel_task"   -> {"new", "running", "paused"}
      [] name = "complete_task" -> {"running"}

Target(name) ==
    CASE name = "start_task"    -> "running"
      [] name = "pause_task"    -> "paused"
      [] name = "cancel_task"   -> "canceled"
      [] name = "complete_task" -> "done"

(* The last operation was a transition asked of a registered task *)
OnTask == taskOp.name \in Transitions /\ taskOp.id \in 1 .. Len(taskOp.pre.tasks)

Before == taskOp.pre.tasks[taskOp.id]

After == tasks[taskOp.id]

Rejected == OnTask /\ taskOp.raised = "ValueError"

Succeeded == taskOp.name \in Transitions \cup {"create_task"} /\ taskOp.raised = "none"

(* The rows of a task, in the order written (the first line is the header) *)
RowsOf(log, id) == SelectSeq(Tail(log), LAMBDA row : row.task_id = id)

(* C16: start succeeds exactly from NEW or PAUSED and yields RUNNING, pause  *)
(* exactly from RUNNING and yields PAUSED, complete exactly from RUNNING and *)
(* yields DONE, cancel exactly from NEW, RUNNING or PAUSED and yields        *)
(* CANCELED; from every other state the operation raises; a task that is     *)
(* CANCELED or DONE never changes state again.                               *)
C16_TaskTransitions ==
    OnTask =>
        /\ taskOp.raised = "none" =>
              (Before.state \in LegalFrom(taskOp.name) /\ After.state = Target(taskOp.name))
        /\ Before.state \notin LegalFrom(taskOp.name) => taskOp.raised = "ValueError"
        /\ Before.state \in LegalFrom(taskOp.name) => taskOp.raised \in {"none", "OSError"}
        /\ After.state # Before.state =>
              (Before.state \in LegalFrom(taskOp.name) /\ After.state = Target(taskOp.name))
        /\ \A i \in 1 .. Len(taskOp.pre.tasks) :
              taskOp.pre.tasks[i].state \in {"canceled", "done"} =>
                  tasks[i].state = taskOp.pre.tasks[i].state

C16_Witness ==
    /\ OnTask
    /\ taskOp.name = "cancel_task"
    /\ taskOp.raised = "none"
    /\ taskOp.errors = 0
    /\ Before.state = "running"
    /\ After.state = "canceled"
    /\ Len(After.history) = 3

(* C17: a start, pause, cancel or complete rejected for its source state     *)
(* raises and changes nothing: the task's state and history, every other     *)
(* task, the audit log and the blackboard's current goal are as before.      *)
C17_RejectedChangesNothing ==
    Rejected =>
        /\ tasks = taskOp.pre.tasks
        /\ audit = taskOp.pre.audit
        /\ board.current_task = taskOp.pre.goal

C17_Witness ==
    /\ Rejected
    /\ taskOp.name = "pause_task"
    /\ Before.state = "paused"
    /\ Len(tasks) = 2
    /\ board.current_task # "None"

(* The task is one a successful create_task returned: its first row is the *)
(* row of its creation.                                                      *)
Created(id) == RowsOf(audit, id) # <<>> /\ RowsOf(audit, id)[1].state = "new"

(* C18: every successful create, start, pause, cancel and complete appends   *)
(* exactly one entry to the task's history and exactly one row to the audit  *)
(* log, the row carrying the task's id and its resulting state; every        *)
(* earlier history entry and row, the header and other tasks' rows included, *)
(* stays as it was; the history of a task that create_task returned is as   *)
(* long as the rows the log holds for it, one for its creation and one for   *)
(* each successful transition.                                               *)
C18_OneEntryPerSuccess ==
    /\ Succeeded =>
          LET id   == taskOp.id
              was  == IF taskOp.name = "create_task" THEN <<>>
                      ELSE taskOp.pre.tasks[id].history
              row  == audit[Len(audit)]
          IN /\ Len(audit) = Len(taskOp.pre.audit) + 1
             /\ SubSeq(audit, 1, Len(audit) - 1) = taskOp.pre.audit
             /\ row.task_id = id
             /\ row.state = tasks[id].state
             /\ tasks[id].history = Append(was, row.message)
             /\ \A i \in 1 .. Len(taskOp.pre.tasks) :
                   i # id => tasks[i] = taskOp.pre.tasks[i]
    /\ Len(audit) >= Len(taskOp.pre.audit)
    /\ SubSeq(audit, 1, Len(taskOp.pre.audit)) = taskOp.pre.audit
    /\ audit[1] = Header
    /\ \A i \in 1 .. Len(tasks) :
          LET rows == RowsOf(audit, i)
          IN /\ Len(tasks[i].history) = Len(rows)
             /\ Created(i) =>
                   Len(tasks[i].history) =
                       1 + Len(SelectSeq(rows, LAMBDA row : row.state # "new"))

C18_Witness ==
    /\ Succeeded
    /\ taskOp.name = "start_task"
    /\ taskOp.errors = 0
    /\ Len(tasks) = 2
    /\ Len(audit) = 4
    /\ Len(tasks[1].history) = 2
    /\ Len(tasks[2].history) = 1

(* C19: after a successful create_task or start_task the blackboard's        *)
(* current goal description is that task's description; after a successful   *)
(* cancel_task or complete_task it is None.                                  *)
C19_GoalFollowsTask ==
    Succeeded =>
        /\ taskOp.name \in {"create_task", "start_task"} =>
              board.current_task = tasks[taskOp.id].description
        /\ taskOp.name \in {"cancel_task", "complete_task"} =>
              board.current_task = "None"

C19_Witness ==
    /\ Succeeded
    /\ taskOp.name = "cancel_task"
    /\ taskOp.pre.goal # "None"
    /\ board.current_task = "None"
    /\ \E i \in 1 .. Len(tasks) : tasks[i].state = "running"


-----------------------------------------------------------------------------
(* Properties of the behaviour tree *)

(* The children up to and including the first whose result is not `pass`,    *)
(* all of them when there is none                                            *)
FirstNot(results, pass) ==
    LET others == {i \in 1 .. Len(results) : results[i] # pass}
    IN IF others = {} THEN Len(results) + 1
       ELSE CHOOSE i \in others : \A j \in others : i <= j

UpTo(n) == [i \in 1 .. n |-> i]

(* C20: a Sequence ticks its children in order, each at most once per tick,  *)
(* and returns the status of the first child that does not return Success    *)
(* without ticking any later child; it returns Success exactly when every    *)
(* child returned Success, so an empty Sequence returns Success.             *)
C20_SequenceStopsAtFirstNonSuccess ==
    (bt.phase = "ticked" /\ bt.kind = "sequence") =>
        LET n     == Len(bt.results)
            first == FirstNot(bt.results, "SUCCESS")
        IN /\ bt.ticked = UpTo(IF first > n THEN n ELSE first)
           /\ bt.status = IF first > n THEN "SUCCESS" ELSE bt.results[first]
           /\ bt.status = "SUCCESS" <=> \A i \in 1 .. n : bt.results[i] = "SUCCESS"

C20_Witness ==
    /\ bt.phase = "ticked"
    /\ bt.kind = "sequence"
    /\ bt.results = <<"SUCCESS", "FAILURE", "SUCCESS">>
    /\ bt.ticked = <<1, 2>>
    /\ bt.status = "FAILURE"


(* C21: a Selector ticks its children in order, each at most once per tick,  *)
(* and returns the status of the first child that does not return Failure    *)
(* without ticking any later child; it returns Failure exactly when every    *)
(* child returned Failure, so an empty Selector returns Failure.             *)
C21_SelectorStopsAtFirstNonFailure ==
    (bt.phase = "ticked" /\ bt.kind = "selector") =>
        LET n     == Len(bt.results)
            first == FirstNot(bt.results, "FAILURE")
        IN /\ bt.ticked = UpTo(IF first > n THEN n ELSE first)
           /\ bt.status = IF first > n THEN "FAILURE" ELSE bt.results[first]
           /\ bt.status = "FAILURE" <=> \A i \in 1 .. n : bt.results[i] = "FAILURE"

C21_Witness ==
    /\ bt.phase = "ticked"
    /\ bt.kind = "selector"
    /\ bt.results = <<"FAILURE", "RUNNING", "SUCCESS">>
    /\ bt.ticked = <<1, 2>>
    /\ bt.status = "RUNNING"


-----------------------------------------------------------------------------
(* Properties of the default tree and of the actions, inside run_live *)

Recorded(reason) ==
    \E i \in 1 .. Len(board.action_history) : board.action_history[i] = reason

(* C22: every tick of the default tree (Selector over forward, turn, stop)   *)
(* returns Running from its first child: the turn action and the stop action *)
(* are ticked in no tick, and the tick issues no driver call for the turn    *)
(* key, whatever the blackboard and the governor hold.                       *)
C22_DefaultTreeAlwaysForward ==
    tree = BuildDefaultTree =>
        /\ ~Recorded("turn_right")
        /\ ~Recorded("stop")
        /\ op.name = "tick" =>
              /\ \A i \in 1 .. Len(calls) : calls[i].key = "w"
              /\ ~op.raised => previousStatus = "RUNNING"

C22_Witness ==
    /\ tree = BuildDefaultTree
    /\ op.name = "tick"
    /\ ~op.raised
    /\ Excludes(allowed, "w")
    /\ calls = <<>>
    /\ previousStatus = "RUNNING"
    /\ ticks = MaxTicks


-----------------------------------------------------------------------------
(* Properties of the planner *)

(* A manager is bound, some task is RUNNING, and the first such task in the  *)
(* registry carries the stop cue in its description                          *)
CueActive ==
    /\ taskOp.bound
    /\ \E i \in 1 .. Len(tasks) :
          /\ tasks[i].state = "running"
          /\ \A j \in 1 .. i - 1 : tasks[j].state # "running"
          /\ HasStopCue(tasks[i].description)

(* C23: plan(goal, blackboard) returns the stop tree whenever a manager is   *)
(* bound and its current task's description contains the stop cue, whatever  *)
(* the goal; otherwise it follows the goal, "stop" giving the stop tree and  *)
(* "forward" or any unknown string the default tree; it never raises and     *)
(* changes neither the blackboard nor any task.                              *)
C23_PlanFollowsCueThenGoal ==
    taskOp.name = "plan" =>
        /\ taskOp.raised = "none"
        /\ tree = IF CueActive \/ taskOp.goal = "stop" THEN BuildStopTree
                  ELSE BuildDefaultTree
        /\ tasks = taskOp.pre.tasks
        /\ audit = taskOp.pre.audit
        /\ board.current_task = taskOp.pre.goal

C23_Witness ==
    /\ taskOp.name = "plan"
    /\ taskOp.goal = "forward"
    /\ CueActive
    /\ Len(tasks) = 2
    /\ tasks[1].state = "new"
    /\ ~HasStopCue(tasks[1].description)
    /\ tree = BuildStopTree


-----------------------------------------------------------------------------
(* Properties of the blackboard *)

(* C24: the action history never holds more than 32 entries; each            *)
(* record_reason / push_action appends at the end and a full history loses   *)
(* its oldest entry first, so the history is always the most recent          *)
(* min(n, 32) of the n reasons given, in the order given.                    *)
C24_HistoryKeepsLast32 ==
    LET n    == Len(recorded)
        kept == IF n < 32 THEN n ELSE 32
    IN /\ Len(board.action_history) <= 32
       /\ board.action_history = SubSeq(recorded, n - kept + 1, n)

C24_Witness ==
    /\ Len(recorded) = 35
    /\ Len(board.action_history) = 32
    /\ board.action_history[1] = 4
    /\ board.action_history[32] = 35
    /\ board.last_action_reason = 33


-----------------------------------------------------------------------------
(* Properties of run_live's status channel and loop *)

TerminalTokens == {"STOPPED", "REQUESTED_STOP", "INTERRUPTED"}

TreeTokens == SelectSeq(emitted, LAMBDA token : token \notin TerminalTokens)

(* C25: the status channel of a session carries tree-status tokens followed  *)
(* by exactly one terminal token: a tree-status token is emitted exactly     *)
(* when a tick's status differs from the previous tick's (the first tick     *)
(* always emits), so no two consecutive tree-status tokens are equal, and    *)
(* exactly one of STOPPED, REQUESTED_STOP, INTERRUPTED is emitted, last, on  *)
(* every way the session ends.                                               *)
C25_StatusChannel ==
    params.callback =>
        /\ \A i \in 1 .. Len(emitted) :
              emitted[i] \in TerminalTokens => (i = Len(emitted) /\ pc = "done")
        /\ \A i \in 1 .. Len(TreeTokens) - 1 : TreeTokens[i] # TreeTokens[i + 1]
        /\ previousStatus # "None" =>
              (TreeTokens # <<>> /\ TreeTokens[Len(TreeTokens)] = previousStatus)
        /\ previousStatus = "None" => TreeTokens = <<>>
        /\ pc = "done" =>
              (emitted # <<>> /\ emitted[Len(emitted)] = termination)


(* The steps of one loop iteration, in the order of lines 115-131 *)
IterationSteps == <<"capture", "stop_check", "tick", "update">>

(* C26: a capture() that fails inside the loop does not end the loop: the    *)
(* timestamp keeps its previous, stale value, and in that same iteration the *)
(* stop check, the tree tick and update() still take place.                  *)
C26_CaptureFailureKeepsLooping ==
    frame.failed =>
        /\ board.timestamp = frame.stale
        /\ (frame.steps = <<"capture">> /\ termination # "INTERRUPTED") =>
              (pc = "stop_check" /\ exc = "none")
        /\ pc \in {"demo", "sleep"} => frame.steps = IterationSteps

C26_Witness ==
    /\ frame.failed
    /\ pc = "sleep"
    /\ now > board.timestamp
    /\ op.name = "update"
    /\ ticks = 2

(* C30: in every loop iteration that passes the stop check and in which no   *)
(* call raises, the tree root is ticked exactly once and then update() is    *)
(* called exactly once, in that order, before the loop sleeps; update() is   *)
(* never called in an iteration that did not tick.                           *)
C30_TickThenUpdateEachIteration ==
    /\ \E n \in 0 .. Len(IterationSteps) : frame.steps = SubSeq(IterationSteps, 1, n)
    /\ pc = "sleep" => frame.steps = IterationSteps
    /\ pc = "update" => (frame.steps = SubSeq(IterationSteps, 1, 3) /\ op.name = "tick")
    /\ (pc = "demo" /\ exc = "none") => op.name = "update"

C30_Witness ==
    /\ pc = "sleep"
    /\ ticks = 2
    /\ frame.steps = IterationSteps
    /\ exc = "none"


-----------------------------------------------------------------------------
(* Properties of the ROI overlay *)

PreviewOps == {"toggle_preview", "set_preview_enabled(True)", "set_preview_enabled(False)"}

LastOverlayOp == overlayOps[Len(overlayOps)]

(* The last two operations were both toggle_preview(), outside setup mode *)
ToggledTwice ==
    /\ Len(overlayOps) = 2
    /\ overlayOps[1].name = "toggle_preview"
    /\ overlayOps[2].name = "toggle_preview"
    /\ ~overlayOps[1].pre.setup_mode

(* What the last preview operation, made outside setup mode, has done *)
PreviewOpDone ==
    (overlayOps # <<>> /\ LastOverlayOp.name \in PreviewOps /\ ~LastOverlayOp.pre.setup_mode) =>
        /\ overlay.visible <=> overlay.preview_enabled
        /\ LastOverlayOp.name = "set_preview_enabled(True)" => overlay.preview_enabled
        /\ LastOverlayOp.name = "set_preview_enabled(False)" => ~overlay.preview_enabled
        /\ LastOverlayOp.name = "toggle_preview" =>
              /\ overlay.preview_enabled = ~LastOverlayOp.pre.preview_enabled
              /\ overlay.roi = LastOverlayOp.pre.roi

-----------------------------------------------------------------------------
(* Properties of the action nodes *)

TickedAction(name) == bt.phase = "action" /\ bt.name = name /\ op.name = "tick"

(* The key a pressing action asks the governor for *)
KeyOf(name) == IF name = "move_forward" THEN "w" ELSE "d"

(* The governor took no press of the key: no key-down reached the driver *)
Dropped == \A i \in 1 .. Len(calls) : calls[i].kind # "down"

(* C28: the move-forward action, and likewise the turn action, returns       *)
(* Running on every tick and appends exactly one reason to the action        *)
(* history on every tick, whether the governor accepted the press or         *)
(* silently dropped it (key disallowed or rate-limited); it never returns    *)
(* Success or Failure.                                                       *)
C28_PressActionsAlwaysRunning ==
    \A name \in {"move_forward", "turn_right"} :
        TickedAction(name) =>
            /\ bt.status \notin {"SUCCESS", "FAILURE"}
            /\ ~op.raised =>
                  /\ bt.status = "RUNNING"
                  /\ Len(board.action_history) = Len(bt.before) + 1
                  /\ SubSeq(board.action_history, 1, Len(bt.before)) = bt.before

(* A second move-forward tick inside the click period: the press is dropped *)
C28_Witness ==
    /\ TickedAction("move_forward")
    /\ ~op.raised
    /\ Dropped
    /\ IsAllowed(pre.allowed, "w")
    /\ RateLimited(pre, "w", op.at)
    /\ bt.status = "RUNNING"
    /\ Len(board.action_history) = 2

(* C29: after the stop action is ticked, its driver calls succeeding,        *)
(* neither "w" nor "d" is in the held-set, exactly one reason has been       *)
(* recorded and the action returned Success; keys other than these two that  *)
(* were held stay held and receive no driver call.                           *)
C29_StopReleasesForwardAndTurn ==
    (TickedAction("stop") /\ ~op.raised) =>
        /\ ~IsHolding(held, "w")
        /\ ~IsHolding(held, "d")
        /\ board.action_history = Append(bt.before, "stop")
        /\ bt.status = "SUCCESS"
        /\ held = Pop(Pop(pre.held, "w"), "d")
        /\ \A i \in 1 .. Len(calls) : calls[i].key \in {"w", "d"}

C29_Witness ==
    /\ TickedAction("stop")
    /\ ~op.raised
    /\ IsHolding(pre.held, "w")
    /\ IsHolding(pre.held, "d")
    /\ IsHolding(pre.held, "W")
    /\ IsHolding(held, "W")
    /\ Len(calls) = 2


-----------------------------------------------------------------------------
(* Properties of current_task *)

RunningIds == {i \in 1 .. Len(tasks) : tasks[i].state = "running"}

(* C31: current_task() returns none when no registered task is RUNNING, and  *)
(* otherwise a task in RUNNING state; when several tasks are RUNNING at once *)
(* it returns the one created earliest, the first RUNNING task in registry   *)
(* insertion order.                                                          *)
C31_CurrentTaskIsFirstRunning ==
    taskOp.name = "current_task" =>
        /\ tasks = taskOp.pre.tasks
        /\ taskOp.id = NoTask <=> RunningIds = {}
        /\ taskOp.id # NoTask =>
              /\ taskOp.id \in RunningIds
              /\ \A j \in RunningIds : taskOp.id <= j

C31_Witness ==
    /\ taskOp.name = "current_task"
    /\ RunningIds = {1, 2}
    /\ taskOp.id = 1


-----------------------------------------------------------------------------
(* Further properties of the governor *)

(* The last operation was a press of k that passed the allow-list and the    *)
(* click-rate guards while k was held and its hold had not expired           *)
PressedWhileHeld(k) ==
    /\ op.name = "press"
    /\ op.key = k
    /\ IsAllowed(pre.allowed, k)
    /\ ~RateLimited(pre, k, op.at)
    /\ IsHolding(pre.held, k)
    /\ ~HoldExpired(Since(pre.held, k), op.at)

(* The last operation wrote k's hold-start timestamp *)
HoldStartWritten(k) ==
    /\ IsHolding(held, k)
    /\ IsHolding(pre.held, k) => Since(held, k) # Since(pre.held, k)

KeyDownIssued(k) ==
    \E i \in 1 .. Len(calls) : calls[i].kind = "down" /\ calls[i].key = k /\ calls[i].ok

(* C32: a press that passes the allow-list and click-rate guards on a key    *)
(* already held and not past max_hold_sec makes no driver call and leaves    *)
(* the key's hold-start timestamp unchanged, while setting its last-click    *)
(* timestamp to the current time; a hold-start timestamp is written only in  *)
(* a step that issues a driver key-down for that key.                        *)
C32_PressOnHeldKeyKeepsHoldStart ==
    \A k \in AllKeys :
        /\ PressedWhileHeld(k) =>
              /\ calls = <<>>
              /\ IsHolding(held, k)
              /\ Since(held, k) = Since(pre.held, k)
              /\ lastClick[k] = op.at
        /\ HoldStartWritten(k) => KeyDownIssued(k)

C32_Witness ==
    /\ PressedWhileHeld("W")
    /\ Since(held, "W") < op.at
    /\ pre.lastClick["W"] < op.at
    /\ lastClick["W"] = op.at
    /\ calls = <<>>


(* The last operation has removed the key from the held-set on purpose:      *)
(* release(k), an expiry of k in update(), or panic_stop(), having returned  *)
LetGo(k) ==
    /\ ~op.raised
    /\ IsHolding(pre.held, k)
    /\ \/ op.name = "release" /\ op.key = k
       \/ op.name = "update" /\ HoldExpired(Since(pre.held, k), op.at)
       \/ op.name = "panic_stop"

(* C33 as stated: the governor keeps a hold-start and a last-click timestamp *)
(* for a key only while the key is in the held-set: after release(k), after  *)
(* an auto-expiry of k in update() and after panic_stop() no timestamp       *)
(* record for k remains.                                                     *)
C33_TimestampsOnlyWhileHeld ==
    \A k \in AllKeys :
        LetGo(k) => (~IsHolding(held, k) /\ lastClick[k] = NoTime)

(* C33, amended: only the hold-start timestamp goes with the held-set; the   *)
(* last-click timestamp of a key is never removed, and it is the same after  *)
(* release(k), an expiry of k in update() and panic_stop() as before.  An    *)
(* operation whose driver call raises removes no hold-start of a key whose   *)
(* key-up was not accepted.                                                  *)
C33_HoldStartOnlyWhileHeld ==
    \A k \in AllKeys :
        /\ LetGo(k) => (~IsHolding(held, k) /\ lastClick[k] = pre.lastClick[k])
        /\ pre.lastClick[k] # NoTime => lastClick[k] # NoTime
        /\ (op.raised /\ op.name \in {"release", "panic_stop"}) => held = pre.held

C33_Witness ==
    /\ LetGo("W")
    /\ op.name = "release"
    /\ ~IsHolding(held, "W")
    /\ lastClick["W"] # NoTime


(* C34: at every point between governor operations, after any sequence of    *)
(* set_allowed_keys, press, release, update and panic_stop in which driver   *)
(* calls may fail, every key in the held-set is permitted by the current     *)
(* allow-list.                                                               *)
C34_HeldKeysAreAllowed ==
    \A k \in HeldKeys(held) : IsAllowed(allowed, k)


RECURSIVE Alternates(_, _)
(* The driver calls cs, issued while the keys d are down at the driver, give *)
(* no key-down to a key that is down and no key-up to a key that is not      *)
Alternates(d, cs) ==
    IF cs = <<>> THEN TRUE
    ELSE LET c == Head(cs)
         IN IF c.kind = "down" THEN c.key \notin d /\ Alternates(d \cup {c.key}, Tail(cs))
            ELSE IF c.kind = "up" THEN c.key \in d /\ Alternates(d \ {c.key}, Tail(cs))
            ELSE Alternates(d, Tail(cs))

(* C35: with a driver whose calls all succeed, for every key the driver      *)
(* calls issued by the governor strictly alternate key-down, key-up,         *)
(* key-down, ... starting with key-down: the governor never issues a         *)
(* key-down for a key it holds nor a key-up for a key it does not hold.      *)
(* The keys down at the driver are the held-set before and after every       *)
(* operation, and the calls of each operation alternate from there.          *)
C35_DriverCallsAlternate ==
    /\ down = HeldKeys(held)
    /\ pre.down = HeldKeys(pre.held)
    /\ Alternates(pre.down, calls)

C35_Witness ==
    /\ op.name = "press"
    /\ op.key = "W"
    /\ Len(calls) = 2
    /\ calls[1] = [kind |-> "up", key |-> "W", ok |-> TRUE]
    /\ calls[2] = [kind |-> "down", key |-> "W", ok |-> TRUE]
    /\ "d" \in down


-----------------------------------------------------------------------------
(* Further properties of the TaskManager *)

NonTerminal == {"new", "running", "paused"}

(* C36: after any sequence of successful and rejected TaskManager operations *)
(* the blackboard's current goal description, when it is not none, is the    *)
(* description of a registered task in a non-terminal state, namely the task *)
(* most recently created, started or paused; it is never the description     *)
(* published for a task that has since become CANCELED or DONE.              *)
C36_GoalIsLastPublishedLiveTask ==
    board.current_task # "None" =>
        /\ taskOp.published \in 1 .. Len(tasks)
        /\ tasks[taskOp.published].state \in NonTerminal
        /\ board.current_task = tasks[taskOp.published].description

C36_Witness ==
    /\ Len(tasks) = 2
    /\ taskOp.published = 1
    /\ tasks[1].state = "running"
    /\ tasks[1].description # tasks[2].description
    /\ board.current_task = tasks[1].description


-----------------------------------------------------------------------------
(* Further properties of run_live *)

(* C37: within one run_live session the behaviour tree is planned exactly    *)
(* once, before the loop starts and before the demo task is created and      *)
(* started; the same tree is ticked in every iteration, and no task          *)
(* creation, start or completion during the session changes which tree is    *)
(* ticked.                                                                   *)
C37_TreePlannedOnce ==
    /\ pc = "start" => (plans = 0 /\ tree = [type |-> "none"] /\ ticks = 0)
    /\ pc \notin {"off", "start"} =>
          /\ plans = 1
          /\ tree = Plan(params.goal, "None")
          /\ tree = BuildStopTree => ~Recorded("forward")
          /\ tree = BuildDefaultTree => ~Recorded("stop")

C37_Witness ==
    /\ pc = "sleep"
    /\ ticks = 2
    /\ params.demo_task
    /\ demo.state = "done"
    /\ plans = 1
    /\ tree = BuildDefaultTree
    /\ Recorded("forward")


-----------------------------------------------------------------------------
(* The audit log against the registry *)

(* C38: at every point between TaskManager operations, for every task the    *)
(* resulting-state field of its most recent audit record equals the task's   *)
(* current state, also when the append to the audit log fails with an I/O    *)
(* error during create_task, start_task, pause_task, cancel_task or          *)
(* complete_task: a task never changes state without a matching record.      *)
C38_AuditMatchesState ==
    \A id \in 1 .. Len(tasks) :
        LET rows == RowsOf(audit, id)
        IN /\ rows # <<>>
           /\ rows[Len(rows)].state = tasks[id].state

====
